---- MODULE Spec2Model ----
(***************************************************************************)
(* Model of the html2ppt preview core:                                     *)
(*   - the transport adapter of the preview service (base64 / UTF-8 / JSON *)
(*     decoding of the query string and of message payloads),              *)
(*   - the preview service page (main.ts + VuePreview.ts): render          *)
(*     requests, the PreviewState, the adaptive-scaling observers,         *)
(*   - the React VuePreview component (frontend/src/components).           *)
(* Text is modelled as sequences of code points, bytes as sequences of     *)
(* 0..255.                                                                 *)
(***************************************************************************)
EXTENDS Integers, Sequences, FiniteSets, TLC

VARIABLES
    \* ---- transport adapter (one decode of one payload)
    payload,        \* the raw value handed to the adapter
    adapterOut,     \* what the adapter function returned for it
    \* ---- splitter (one parseSlidevRegex call on one document)
    markdown,       \* the document text
    parseOut,       \* the slides parseSlidevRegex returned for it
    \* ---- rescale (one applyAdaptiveScale or updateScale call)
    layout,         \* the sizes the function reads
    transform,      \* the transform it applied
    \* ---- preview service page (main.ts, VuePreview.ts)
    url,            \* window.location.search: [code, components, mode]
    state,          \* the PreviewState: [app], 0 for null
    apps,           \* every Vue app created so far, by id
    document,       \* #preview-container: its children and the mount elements' content
    adaptive,       \* the adaptiveScale* / adaptive*Observer variables of main.ts
    browser,        \* observers, animation frames and mutation records of the page
    task,           \* position of the handler that is running
    log,            \* history: requests received, what the last one did
    \* ---- React VuePreview component (frontend/src/components/VuePreview.tsx)
    props,          \* the props of the last render: [code]
    error,          \* the error state ("" for null)
    refs,           \* containerRef.current and mountRef.current are elements
    fiber,          \* React's side: [alive, effectDue, effect]
    sessions,       \* one record per effect run that got past its guards
    head,           \* the <style> nodes in document.head: <<session, kind>>
    unhandled,      \* an exception left the component
    \* ---- session store of the web app (web/stores/session.ts)
    store,          \* the store's state: [sessionId, status, result, isPolling, pollTimer]
    inflight,       \* the requests awaited, one per slot, with what resumes after them
    backend,        \* the API's sessions and the page's live intervals
    hist,           \* history: user actions so far, what the last step was
    \* ---- helper functions called on their own (encoding.ts, applyUnoStyles)
    input,          \* the function called and its arguments
    output,         \* what it returned and did
    \* ---- PreviewStage component of the web app (components/PreviewStage.vue)
    stage           \* its props, frameReady, the iframe shown and every iframe created

parseVars == <<markdown, parseOut>>
scaleVars == <<layout, transform>>
storeVars == <<store, inflight, backend, hist>>
pureVars == <<input, output>>
decVars == <<payload, adapterOut, parseVars, scaleVars, storeVars, pureVars, stage>>
svcVars == <<url, state, apps, document, adaptive, browser, task, log>>
reactVars == <<props, error, refs, fiber, sessions, head, unhandled>>
vars == <<payload, adapterOut, markdown, parseOut, layout, transform, url, state, apps, document, adaptive, browser, task, log,
          props, error, refs, fiber, sessions, head, unhandled,
          store, inflight, backend, hist, input, output, stage>>

-----------------------------------------------------------------------------
(* Bounds                                                                  *)
MaxBytes == 3       \* longest enumerated byte string behind a payload
MaxRequests == 3    \* render requests the page receives (URL render included)
MaxCalls == 4       \* calls a client of VuePreview.ts makes on one PreviewState
MaxSessions == 3    \* effect runs of one VuePreview component that start a session
MaxCallbacks == 3   \* rescale requests made between two animation frames
MaxBlocks == 3      \* blocks of a document handed to parseSlidevRegex
MaxSize == 3        \* sizes of the elements a rescale measures
MaxInFlight == 2    \* requests of the session store awaited at the same time
MaxIds == 2         \* sessions the API creates
MaxActions == 3     \* user actions on the session store
MaxChars == 2       \* characters of a document handed to encodeBase64

-----------------------------------------------------------------------------
(* Characters                                                              *)
ChEq      == 61      \* '='
ChQuote   == 34      \* '"'
ChBackslash == 92
ChColon   == 58
ChComma   == 44
ChLBrace  == 123
ChRBrace  == 125
ChLBrack  == 91
ChRBrack  == 93
ChMinus   == 45
Replacement == 65533 \* U+FFFD

Range(s) == {s[i] : i \in DOMAIN s}

RECURSIVE Filter(_, _)
\* the elements of s that are not in drop, in order
Filter(s, drop) ==
    IF s = <<>> THEN <<>>
    ELSE IF Head(s) \in drop THEN Filter(Tail(s), drop)
         ELSE <<Head(s)>> \o Filter(Tail(s), drop)

-----------------------------------------------------------------------------
(* atob / btoa                                                             *)
AsciiWhitespace == {9, 10, 12, 13, 32}

IsB64Char(c) ==
    \/ c \in 65..90 \/ c \in 97..122 \/ c \in 48..57 \/ c = 43 \/ c = 47

B64Index(c) ==
    IF c \in 65..90 THEN c - 65
    ELSE IF c \in 97..122 THEN c - 71
    ELSE IF c \in 48..57 THEN c + 4
    ELSE IF c = 43 THEN 62 ELSE 63

B64Char(i) ==
    IF i < 26 THEN 65 + i
    ELSE IF i < 52 THEN 71 + i
    ELSE IF i < 62 THEN i - 4
    ELSE IF i = 62 THEN 43 ELSE 47

\* step 2 of the forgiving-base64 decode: drop one or two trailing '='
StripPadding(s) ==
    IF Len(s) % 4 = 0 /\ Len(s) > 0 /\ s[Len(s)] = ChEq
    THEN IF s[Len(s) - 1] = ChEq THEN SubSeq(s, 1, Len(s) - 2)
         ELSE SubSeq(s, 1, Len(s) - 1)
    ELSE s

RECURSIVE B64Groups(_)
\* the bytes of a padding-free string of base64 characters
B64Groups(s) ==
    IF Len(s) >= 4 THEN
        LET n == ((B64Index(s[1]) * 64 + B64Index(s[2])) * 64 + B64Index(s[3])) * 64
                 + B64Index(s[4])
        IN  <<n \div 65536, (n \div 256) % 256, n % 256>> \o B64Groups(SubSeq(s, 5, Len(s)))
    ELSE IF Len(s) = 3 THEN
        LET n == (B64Index(s[1]) * 64 + B64Index(s[2])) * 64 + B64Index(s[3])
        IN  <<n \div 1024, (n \div 4) % 256>>
    ELSE IF Len(s) = 2 THEN
        <<(B64Index(s[1]) * 64 + B64Index(s[2])) \div 16>>
    ELSE <<>>

\* window.atob: [ok |-> FALSE] stands for the InvalidCharacterError it throws
Atob(value) ==
    LET data == StripPadding(Filter(value, AsciiWhitespace))
    IN  IF Len(data) % 4 = 1 \/ \E i \in DOMAIN data : ~IsB64Char(data[i])
        THEN [ok |-> FALSE, bytes |-> <<>>]
        ELSE [ok |-> TRUE, bytes |-> B64Groups(data)]

RECURSIVE Btoa(_)
\* window.btoa of a byte string
Btoa(bytes) ==
    IF bytes = <<>> THEN <<>>
    ELSE IF Len(bytes) = 1 THEN
        <<B64Char(bytes[1] \div 4), B64Char((bytes[1] % 4) * 16), ChEq, ChEq>>
    ELSE IF Len(bytes) = 2 THEN
        <<B64Char(bytes[1] \div 4),
          B64Char((bytes[1] % 4) * 16 + bytes[2] \div 16),
          B64Char((bytes[2] % 16) * 4), ChEq>>
    ELSE
        <<B64Char(bytes[1] \div 4),
          B64Char((bytes[1] % 4) * 16 + bytes[2] \div 16),
          B64Char((bytes[2] % 16) * 4 + bytes[3] \div 64),
          B64Char(bytes[3] % 64)>> \o Btoa(SubSeq(bytes, 4, Len(bytes)))

-----------------------------------------------------------------------------
(* new TextDecoder().decode(bytes): UTF-8, not fatal, BOM removed           *)
IsCont(bs, i, lo, hi) == i <= Len(bs) /\ bs[i] >= lo /\ bs[i] <= hi

\* bounds of the byte that may follow lead byte b
SecondLo(b) == IF b = 224 THEN 160 ELSE IF b = 240 THEN 144 ELSE 128
SecondHi(b) == IF b = 237 THEN 159 ELSE IF b = 244 THEN 143 ELSE 191

RECURSIVE Utf8From(_, _)
Utf8From(bs, i) ==
    IF i > Len(bs) THEN <<>>
    ELSE LET b == bs[i] IN
      IF b <= 127 THEN <<b>> \o Utf8From(bs, i + 1)
      ELSE IF b \in 194..223 THEN
        IF IsCont(bs, i + 1, 128, 191)
        THEN <<(b - 192) * 64 + (bs[i + 1] - 128)>> \o Utf8From(bs, i + 2)
        ELSE <<Replacement>> \o Utf8From(bs, i + 1)
      ELSE IF b \in 224..239 THEN
        IF ~IsCont(bs, i + 1, SecondLo(b), SecondHi(b))
        THEN <<Replacement>> \o Utf8From(bs, i + 1)
        ELSE IF ~IsCont(bs, i + 2, 128, 191)
        THEN <<Replacement>> \o Utf8From(bs, i + 2)
        ELSE <<((b - 224) * 64 + (bs[i + 1] - 128)) * 64 + (bs[i + 2] - 128)>>
             \o Utf8From(bs, i + 3)
      ELSE IF b \in 240..244 THEN
        IF ~IsCont(bs, i + 1, SecondLo(b), SecondHi(b))
        THEN <<Replacement>> \o Utf8From(bs, i + 1)
        ELSE IF ~IsCont(bs, i + 2, 128, 191)
        THEN <<Replacement>> \o Utf8From(bs, i + 2)
        ELSE IF ~IsCont(bs, i + 3, 128, 191)
        THEN <<Replacement>> \o Utf8From(bs, i + 3)
        ELSE <<(((b - 240) * 64 + (bs[i + 1] - 128)) * 64 + (bs[i + 2] - 128)) * 64
               + (bs[i + 3] - 128)>> \o Utf8From(bs, i + 4)
      ELSE <<Replacement>> \o Utf8From(bs, i + 1)

HasBom(bs) == Len(bs) >= 3 /\ bs[1] = 239 /\ bs[2] = 187 /\ bs[3] = 191

TextDecode(bs) == IF HasBom(bs) THEN Utf8From(bs, 4) ELSE Utf8From(bs, 1)

\* decodeBase64: atob may throw, TextDecoder never does
decodeBase64(value) ==
    LET a == Atob(value)
    IN  IF a.ok THEN [threw |-> FALSE, text |-> TextDecode(a.bytes)]
        ELSE [threw |-> TRUE, text |-> <<>>]

-----------------------------------------------------------------------------
(* JSON.parse, for texts without fractions or exponents                    *)
JsonWs == {32, 9, 10, 13}
Digits == 48..57
LitTrue  == <<116, 114, 117, 101>>
LitFalse == <<102, 97, 108, 115, 101>>
LitNull  == <<110, 117, 108, 108>>

JsonFail == [ok |-> FALSE, t |-> "none", v |-> 0, next |-> 0]
JsonVal(t, v, next) == [ok |-> TRUE, t |-> t, v |-> v, next |-> next]

RECURSIVE SkipWs(_, _)
SkipWs(s, i) == IF i <= Len(s) /\ s[i] \in JsonWs THEN SkipWs(s, i + 1) ELSE i

\* a text is a sequence of code points; a surrogate code point stands for a
\* lone surrogate code unit, a surrogate pair is the one code point it encodes
IsHigh(c) == c \in 55296..56319
IsLow(c) == c \in 56320..57343
IsSurrogate(c) == c \in 55296..57343

RECURSIVE Combine(_)
\* code units read one by one, pairs joined
Combine(s) ==
    IF Len(s) < 2 THEN s
    ELSE IF IsHigh(s[1]) /\ IsLow(s[2])
    THEN <<65536 + (s[1] - 55296) * 1024 + (s[2] - 56320)>> \o Combine(SubSeq(s, 3, Len(s)))
    ELSE <<s[1]>> \o Combine(Tail(s))

HexVal(c) ==
    IF c \in 48..57 THEN c - 48
    ELSE IF c \in 97..102 THEN c - 87
    ELSE IF c \in 65..70 THEN c - 55
    ELSE 0 - 1

\* the character a one-letter escape stands for, -1 if there is none
SimpleEscape(c) ==
    IF c \in {ChQuote, ChBackslash, 47} THEN c
    ELSE IF c = 98 THEN 8
    ELSE IF c = 102 THEN 12
    ELSE IF c = 110 THEN 10
    ELSE IF c = 114 THEN 13
    ELSE IF c = 116 THEN 9
    ELSE 0 - 1

RECURSIVE ReadString(_, _, _)
\* the string whose body starts at j; acc holds the characters read so far
ReadString(s, j, acc) ==
    IF j > Len(s) \/ s[j] < 32 THEN JsonFail
    ELSE IF s[j] = ChQuote THEN JsonVal("string", Combine(acc), j + 1)
    ELSE IF s[j] # ChBackslash THEN ReadString(s, j + 1, Append(acc, s[j]))
    ELSE IF j + 1 > Len(s) THEN JsonFail
    ELSE IF SimpleEscape(s[j + 1]) >= 0
    THEN ReadString(s, j + 2, Append(acc, SimpleEscape(s[j + 1])))
    ELSE IF s[j + 1] = 117 /\ j + 5 <= Len(s)
            /\ \A k \in 2..5 : HexVal(s[j + k]) >= 0
    THEN ReadString(s, j + 6,
                    Append(acc, ((HexVal(s[j + 2]) * 16 + HexVal(s[j + 3])) * 16
                                 + HexVal(s[j + 4])) * 16 + HexVal(s[j + 5])))
    ELSE JsonFail

RECURSIVE DigitsEnd(_, _)
DigitsEnd(s, j) == IF j <= Len(s) /\ s[j] \in Digits THEN DigitsEnd(s, j + 1) ELSE j

RECURSIVE DigitsValue(_)
DigitsValue(ds) ==
    IF ds = <<>> THEN 0
    ELSE DigitsValue(SubSeq(ds, 1, Len(ds) - 1)) * 10 + (ds[Len(ds)] - 48)

StartsWith(s, i, lit) == i + Len(lit) - 1 <= Len(s) /\ SubSeq(s, i, i + Len(lit) - 1) = lit

ParseString(s, i) == ReadString(s, i + 1, <<>>)

ParseNumber(s, i) ==
    LET d == IF s[i] = ChMinus THEN i + 1 ELSE i
        e == DigitsEnd(s, d)
    IN  IF e = d \/ (s[d] = 48 /\ e > d + 1) THEN JsonFail
        ELSE JsonVal("number",
                     IF d = i THEN DigitsValue(SubSeq(s, d, e - 1))
                     ELSE 0 - DigitsValue(SubSeq(s, d, e - 1)),
                     e)

RECURSIVE ParseValue(_, _), ParseElements(_, _, _), ParseMembers(_, _, _)
\* the JSON value that starts at i (whitespace already skipped)
ParseValue(s, i) ==
    IF i > Len(s) THEN JsonFail
    ELSE IF s[i] = ChQuote THEN ParseString(s, i)
    ELSE IF s[i] = ChMinus \/ s[i] \in Digits THEN ParseNumber(s, i)
    ELSE IF StartsWith(s, i, LitTrue) THEN JsonVal("true", 0, i + 4)
    ELSE IF StartsWith(s, i, LitFalse) THEN JsonVal("false", 0, i + 5)
    ELSE IF StartsWith(s, i, LitNull) THEN JsonVal("null", 0, i + 4)
    ELSE IF s[i] = ChLBrack THEN
        LET j == SkipWs(s, i + 1)
        IN  IF j <= Len(s) /\ s[j] = ChRBrack THEN JsonVal("array", <<>>, j + 1)
            ELSE ParseElements(s, j, <<>>)
    ELSE IF s[i] = ChLBrace THEN
        LET j == SkipWs(s, i + 1)
        IN  IF j <= Len(s) /\ s[j] = ChRBrace THEN JsonVal("object", <<>>, j + 1)
            ELSE ParseMembers(s, j, <<>>)
    ELSE JsonFail

\* the elements of an array from i on; acc holds those read so far
ParseElements(s, i, acc) ==
    LET r == ParseValue(s, i)
        j == SkipWs(s, r.next)
    IN  IF ~r.ok \/ j > Len(s) THEN JsonFail
        ELSE IF s[j] = ChComma
             THEN ParseElements(s, SkipWs(s, j + 1), Append(acc, [t |-> r.t, v |-> r.v]))
        ELSE IF s[j] = ChRBrack
             THEN JsonVal("array", Append(acc, [t |-> r.t, v |-> r.v]), j + 1)
        ELSE JsonFail

\* the members of an object from i on; a repeated key keeps its last value
ParseMembers(s, i, acc) ==
    IF i > Len(s) \/ s[i] # ChQuote THEN JsonFail
    ELSE
      LET k == ParseString(s, i)
          c == SkipWs(s, k.next)
      IN  IF ~k.ok \/ c > Len(s) \/ s[c] # ChColon THEN JsonFail
          ELSE
            LET r == ParseValue(s, SkipWs(s, c + 1))
                j == SkipWs(s, r.next)
                obj == (k.v :> [t |-> r.t, v |-> r.v]) @@ acc
            IN  IF ~r.ok \/ j > Len(s) THEN JsonFail
                ELSE IF s[j] = ChComma THEN ParseMembers(s, SkipWs(s, j + 1), obj)
                ELSE IF s[j] = ChRBrace THEN JsonVal("object", obj, j + 1)
                ELSE JsonFail

\* JSON.parse(text): [ok |-> FALSE] stands for the SyntaxError it throws
JsonParse(text) ==
    LET r == ParseValue(text, SkipWs(text, 1))
    IN  IF r.ok /\ SkipWs(text, r.next) > Len(text) THEN r ELSE JsonFail

\* !parsed for a parsed JSON value
JsonFalsy(r) ==
    \/ r.t \in {"null", "false"}
    \/ r.t = "number" /\ r.v = 0
    \/ r.t = "string" /\ r.v = <<>>

-----------------------------------------------------------------------------
(* The adapter functions of main.ts.  A result is                          *)
(*   [null, value, logged, threw]: null/value what the function returns,   *)
(*   logged whether console.error was called, threw whether an exception   *)
(*   left the function.                                                    *)
Absent == [t |-> "absent", v |-> 0]
Str(s) == [t |-> "string", v |-> s]

AdapterNull(logged) == [null |-> TRUE, value |-> 0, logged |-> logged, threw |-> FALSE]
AdapterValue(v)     == [null |-> FALSE, value |-> v, logged |-> FALSE, threw |-> FALSE]

\* params.get(name): an absent parameter is null, an empty one is ''
getCodeFromUrl(param) ==
    IF param.t = "absent" \/ param.v = <<>> THEN AdapterNull(FALSE)
    ELSE LET d == decodeBase64(param.v)
         IN  IF d.threw THEN AdapterNull(TRUE) ELSE AdapterValue(d.text)

parseComponentsPayload(s) ==
    LET d == decodeBase64(s)
        parsed == JsonParse(d.text)
    IN  IF d.threw \/ ~parsed.ok THEN AdapterNull(TRUE)
        ELSE IF JsonFalsy(parsed) \/ parsed.t # "object" THEN AdapterNull(FALSE)
        ELSE AdapterValue(parsed.v)

getComponentsFromUrl(param) ==
    IF param.t = "absent" \/ param.v = <<>> THEN AdapterNull(FALSE)
    ELSE parseComponentsPayload(param.v)

\* the components field of a message: any structured-clone value
MsgFalsy(p) ==
    \/ p.t \in {"absent", "null"}
    \/ p.t = "string" /\ p.v = <<>>
    \/ p.t = "number" /\ p.v = 0
    \/ p.t = "boolean" /\ p.v = FALSE

normalizeComponents(p) ==
    IF MsgFalsy(p) THEN AdapterNull(FALSE)
    ELSE IF p.t = "string" THEN parseComponentsPayload(p.v)
    ELSE IF p.t = "object" THEN AdapterValue(p.v)
    ELSE AdapterNull(FALSE)

-----------------------------------------------------------------------------
(* The page before its script has run                                      *)
NoUrl == [code |-> Absent, components |-> Absent, mode |-> "none"]
NoTask == [pc |-> "off", threw |-> FALSE, message |-> ""]
NoLog == [n |-> 0, latest |-> [n |-> 0, doc |-> <<>>], last |-> "none",
          rendered |-> <<>>, scalings |-> 0, failed |-> FALSE, uncaught |-> FALSE,
          loaded |-> FALSE]
NoAdaptive == [container |-> 0, frame |-> 0, resizeObserver |-> 0, mutationObserver |-> 0]
\* the browser's side: the observers created, the animation-frame requests
\* pending, the MutationObservers with records to deliver; requests counts
\* the requestAnimationFrame calls since the last frame callback ran, and
\* since is the number of apps created when the pending request was made
NoBrowser(hasRO) == [observers |-> <<>>, frames |-> {}, mutations |-> {},
                     hasResizeObserver |-> hasRO, requests |-> 0, since |-> 0]
EmptyDocument == [mount |-> 0, loading |-> FALSE, error |-> "", html |-> <<>>]

\* parseSlidevRegex has not been called
NoParse == [done |-> FALSE, slides |-> <<>>]
ParserNotStarted == markdown = <<>> /\ parseOut = NoParse

\* no rescale has been asked for
NoLayout == [fn |-> "none"]
NoTransform == [applied |-> FALSE]
ScaleNotStarted == layout = NoLayout /\ transform = NoTransform

\* the session store as it is created: state() of defineStore, no request
\* awaited, no session known to the API, no interval
NoRequest == [fn |-> "none"]
NewStore == [sessionId |-> 0, status |-> "idle", result |-> 0,
             isPolling |-> FALSE, pollTimer |-> 0]
NoBackend == [sessions |-> [i \in 1..MaxIds |-> "none"], timers |-> {}]
NoHist == [actions |-> 0, last |-> "none", user |-> "none", ended |-> FALSE]
\* no helper function has been called on its own
NoInput == [fn |-> "none"]
NoOutput == [done |-> FALSE]
HelpersNotCalled == input = NoInput /\ output = NoOutput

NoStage == [mounted |-> FALSE]
StageNotMounted == stage = NoStage

StoreNotStarted ==
    /\ store = NewStore
    /\ inflight = [i \in 1..MaxInFlight |-> NoRequest]
    /\ backend = NoBackend
    /\ hist = NoHist

\* a component source as mountPreview sees it: what fails in it, whether
\* it has <style> blocks, how the style generation for its DOM ends
Source(kind, styles, uno) == [kind |-> kind, styles |-> styles, uno |-> uno]
NoSource == Source("blank", FALSE, "none")
NoFiber == [alive |-> FALSE, effectDue |-> FALSE, effect |-> 0]

ReactNotStarted ==
    /\ props = [code |-> NoSource]
    /\ error = ""
    /\ refs = FALSE
    /\ fiber = NoFiber
    /\ sessions = <<>>
    /\ head = {}
    /\ unhandled = FALSE

ServiceNotStarted ==
    /\ url = NoUrl
    /\ state = [app |-> 0]
    /\ apps = <<>>
    /\ document = EmptyDocument
    /\ adaptive = NoAdaptive
    /\ browser = NoBrowser(TRUE)
    /\ task = NoTask
    /\ log = NoLog

-----------------------------------------------------------------------------
(* The adapter run on one payload                                          *)

\* bytes the enumerated byte strings are made of: { } " 5 [ and the UTF-8
\* bytes C3 A9 (e-acute), FF (never valid)
ByteAlphabet == {123, 125, 34, 53, 91, 195, 169, 255}

RECURSIVE ByteStrings(_)
ByteStrings(n) ==
    IF n = 0 THEN {<<>>}
    ELSE LET shorter == ByteStrings(n - 1)
         IN  shorter \cup {Append(bs, b) : bs \in {x \in shorter : Len(x) = n - 1},
                                            b \in ByteAlphabet}

\* longer byte strings: {"a":"b"}  {"a":"<FF>"}  {"a":"<C3 A9>"}  {"a":5,
\* [5]  "a"  null  true  0  <BOM>{}  {"a":{}}
SampleBytes ==
    { <<123, 34, 97, 34, 58, 34, 98, 34, 125>>,
      <<123, 34, 97, 34, 58, 34, 255, 34, 125>>,
      <<123, 34, 97, 34, 58, 34, 195, 169, 34, 125>>,
      <<123, 34, 97, 34, 58, 53, 44>>,
      <<91, 53, 93>>, <<34, 97, 34>>, LitNull, LitTrue, <<48>>,
      <<239, 187, 191, 123, 125>>,
      <<123, 34, 97, 34, 58, 123, 125, 125>> }

PayloadBytes == ByteStrings(MaxBytes) \cup SampleBytes

\* a payload string: the base64 of a byte string, or that with a character
\* that is no base64 character in front, or with one character too many
PayloadStrings ==
    {Btoa(bs) : bs \in PayloadBytes}
    \cup {<<33>> \o Btoa(bs) : bs \in SampleBytes}
    \cup {Btoa(bs) \o <<65>> : bs \in SampleBytes}

\* what a message can carry in its components field besides a string
MessageValues ==
    { Absent, [t |-> "null", v |-> 0], [t |-> "number", v |-> 0], [t |-> "number", v |-> 5],
      [t |-> "boolean", v |-> FALSE], [t |-> "boolean", v |-> TRUE],
      [t |-> "array", v |-> <<>>],
      [t |-> "object", v |-> <<>>],
      [t |-> "object", v |-> (<<97>> :> [t |-> "string", v |-> <<98>>])] }

Payloads == {Str(s) : s \in PayloadStrings} \cup MessageValues

NoCall == [fn |-> "none", res |-> AdapterNull(FALSE)]

InitAdapter ==
    /\ payload \in Payloads
    /\ ParserNotStarted
    /\ ScaleNotStarted
    /\ StoreNotStarted
    /\ HelpersNotCalled
    /\ StageNotMounted
    /\ adapterOut = NoCall
    /\ ServiceNotStarted
    /\ ReactNotStarted

CallGetCodeFromUrl ==
    /\ adapterOut.fn = "none"
    /\ payload.t \in {"absent", "string"}
    /\ adapterOut' = [fn |-> "getCodeFromUrl", res |-> getCodeFromUrl(payload)]
    /\ UNCHANGED <<payload, parseVars, scaleVars, storeVars, pureVars, stage, svcVars, reactVars>>

CallGetComponentsFromUrl ==
    /\ adapterOut.fn = "none"
    /\ payload.t \in {"absent", "string"}
    /\ adapterOut' = [fn |-> "getComponentsFromUrl", res |-> getComponentsFromUrl(payload)]
    /\ UNCHANGED <<payload, parseVars, scaleVars, storeVars, pureVars, stage, svcVars, reactVars>>

CallNormalizeComponents ==
    /\ adapterOut.fn = "none"
    /\ adapterOut' = [fn |-> "normalizeComponents", res |-> normalizeComponents(payload)]
    /\ UNCHANGED <<payload, parseVars, scaleVars, storeVars, pureVars, stage, svcVars, reactVars>>

NextAdapter ==
    \/ CallGetCodeFromUrl
    \/ CallGetComponentsFromUrl
    \/ CallNormalizeComponents

SpecAdapter == InitAdapter /\ [][NextAdapter]_vars

-----------------------------------------------------------------------------
(* Claim C10                                                               *)

RECURSIVE Utf8WellFormed(_, _)
\* bs from i on is well-formed UTF-8 (what a fatal decoder accepts)
Utf8WellFormed(bs, i) ==
    \/ i > Len(bs)
    \/ /\ i <= Len(bs)
       /\ LET b == bs[i] IN
          \/ b <= 127 /\ Utf8WellFormed(bs, i + 1)
          \/ /\ b \in 194..223
             /\ IsCont(bs, i + 1, 128, 191)
             /\ Utf8WellFormed(bs, i + 2)
          \/ /\ b \in 224..239
             /\ IsCont(bs, i + 1, SecondLo(b), SecondHi(b))
             /\ IsCont(bs, i + 2, 128, 191)
             /\ Utf8WellFormed(bs, i + 3)
          \/ /\ b \in 240..244
             /\ IsCont(bs, i + 1, SecondLo(b), SecondHi(b))
             /\ IsCont(bs, i + 2, 128, 191)
             /\ IsCont(bs, i + 3, 128, 191)
             /\ Utf8WellFormed(bs, i + 4)

InvalidBase64(s) == ~Atob(s).ok
InvalidUtf8(s)   == Atob(s).ok /\ ~Utf8WellFormed(Atob(s).bytes, 1)
InvalidJson(s)   == /\ Atob(s).ok
                    /\ Utf8WellFormed(Atob(s).bytes, 1)
                    /\ ~JsonParse(TextDecode(Atob(s).bytes)).ok
NonObjectJson(s) == /\ Atob(s).ok
                    /\ Utf8WellFormed(Atob(s).bytes, 1)
                    /\ JsonParse(TextDecode(Atob(s).bytes)).ok
                    /\ JsonParse(TextDecode(Atob(s).bytes)).t # "object"

MalformedDocument(s)   == InvalidBase64(s) \/ InvalidUtf8(s)
MalformedComponents(s) ==
    InvalidBase64(s) \/ InvalidUtf8(s) \/ InvalidJson(s) \/ NonObjectJson(s)

\* C10: every malformed transport payload (invalid base64, invalid UTF-8,
\* invalid JSON, JSON that is not an object) makes the adapter function
\* return null, and no adapter function throws.
C10_MalformedPayloadYieldsNull ==
    (adapterOut.fn # "none" /\ payload.t = "string" /\ payload.v # <<>>) =>
        /\ ~adapterOut.res.threw
        /\ (adapterOut.fn = "getCodeFromUrl" /\ MalformedDocument(payload.v))
               => adapterOut.res.null
        /\ (adapterOut.fn \in {"getComponentsFromUrl", "normalizeComponents"}
              /\ MalformedComponents(payload.v))
               => adapterOut.res.null

-----------------------------------------------------------------------------
(* VuePreview.ts of the preview service                                    *)

\* documents: "A", "B", a whitespace-only one, the empty one, and "X", which
\* stands for a document on which mounting SlidesRender throws
DocA     == <<65>>
DocB     == <<66>>
DocBlank == <<32>>
DocEmpty == <<>>
DocThrow == <<88>>
ThrowingDocs == {DocThrow}

TrimWhitespace == {9, 10, 11, 12, 13, 32, 160, 65279}
\* !code.trim()
IsBlank(code) == \A i \in DOMAIN code : code[i] \in TrimWhitespace

\* a record w = [state, apps, doc, ad, br] is the page's state while a
\* handler runs; the operators below are the statements of the source
World == [state |-> state, apps |-> apps, doc |-> document, ad |-> adaptive, br |-> browser]

ConnectedObservers(br) == {o \in DOMAIN br.observers : br.observers[o].connected}
ConnectedOfKind(br, kind) == {o \in ConnectedObservers(br) : br.observers[o].kind = kind}

\* a childList change below #preview-container: every connected
\* MutationObserver gets a record, its callback runs as a microtask
RecordMutation(w) ==
    [w EXCEPT !.br.mutations = @ \cup ConnectedOfKind(w.br, "mutation")]

\* el.innerHTML = '' for a mount element
EmptyElement(w, el) ==
    IF w.doc.html[el] = {} THEN w
    ELSE LET w1 == [w EXCEPT !.doc.html[el] = {}]
         IN  IF el = w.doc.mount THEN RecordMutation(w1) ELSE w1

\* app.unmount(): removes the app's nodes from the element it is mounted in;
\* on an app that is not mounted Vue only warns
AppUnmount(w, a) ==
    LET app == w.apps[a]
        w1 == [w EXCEPT !.apps[a].status = "unmounted",
                        !.apps[a].unmounts = @ + 1]
    IN  IF app.status # "mounted" THEN w1
        ELSE LET w2 == [w1 EXCEPT !.doc.html[app.el] = @ \ {a}]
             IN  IF app.el = w.doc.mount THEN RecordMutation(w2) ELSE w2

\* cleanupPreview that drops the app without unmounting it
cleanupPreview_NoUnmount(w, mountEl) ==
    LET w1 == [w EXCEPT !.state.app = 0]
    IN  IF mountEl # 0 THEN EmptyElement(w1, mountEl) ELSE w1

\* cleanupPreview that also cancels the pending animation-frame request
cleanupPreview_CancelsRescale(w, mountEl) ==
    LET w1 == IF w.state.app # 0
              THEN [AppUnmount(w, w.state.app) EXCEPT !.state.app = 0]
              ELSE w
        w2 == [w1 EXCEPT !.br.frames = {}, !.br.requests = 0, !.br.since = 0,
                         !.ad.frame = 0]
    IN  IF mountEl # 0 THEN EmptyElement(w2, mountEl) ELSE w2

\* cleanupPreview that unmounts the app and keeps it in the state
cleanupPreview_KeepsApp(w, mountEl) ==
    LET w1 == IF w.state.app # 0 THEN AppUnmount(w, w.state.app) ELSE w
    IN  IF mountEl # 0 THEN EmptyElement(w1, mountEl) ELSE w1

\* cleanupPreview(state, mountEl)
cleanupPreview(w, mountEl) ==
    LET w1 == IF w.state.app # 0
              THEN [AppUnmount(w, w.state.app) EXCEPT !.state.app = 0]
              ELSE w
    IN  IF mountEl # 0 THEN EmptyElement(w1, mountEl) ELSE w1

\* state.app = createApp(...): the new app has the next id
CreateApp(w, code, req) ==
    LET a == Len(w.apps) + 1
    IN  [w EXCEPT !.apps = Append(@, [doc |-> code, req |-> req, status |-> "created",
                                       el |-> 0, unmounts |-> 0]),
                  !.state.app = a]

\* state.app.mount(mountEl): Vue empties the element and renders into it
AppMount(w, mountEl) ==
    LET a == w.state.app
        w1 == [w EXCEPT !.apps[a].status = "mounted",
                        !.apps[a].el = mountEl,
                        !.doc.html[mountEl] = {a}]
    IN  IF mountEl = w.doc.mount THEN RecordMutation(w1) ELSE w1

Thrown(w, message) == [w |-> w, threw |-> TRUE, message |-> message]
Returned(w)        == [w |-> w, threw |-> FALSE, message |-> ""]

\* renderVueComponent that rejects a blank document before it cleans up
renderVueComponent_CheckFirst(w, code, mountEl, req) ==
    IF IsBlank(code) THEN Thrown(w, "No content provided.")
    ELSE LET w2 == CreateApp(cleanupPreview(w, mountEl), code, req)
         IN  IF code \in ThrowingDocs THEN Thrown(w2, "mount failed")
             ELSE Returned(AppMount(w2, mountEl))

\* renderVueComponent(code, containerEl, mountEl, state): it has no await, so
\* it runs to its end, or to its throw, when it is called.  main.ts passes a
\* fifth argument (rendererOptions) that the function does not declare.
renderVueComponent(w, code, mountEl, req) ==
    LET w1 == cleanupPreview(w, mountEl)
    IN  IF IsBlank(code) THEN Thrown(w1, "No content provided.")
        ELSE LET w2 == CreateApp(w1, code, req)
             IN  IF code \in ThrowingDocs THEN Thrown(w2, "mount failed")
                 ELSE Returned(AppMount(w2, mountEl))

-----------------------------------------------------------------------------
(* main.ts of the preview service                                          *)

\* #preview-container is in index.html and is never replaced
ContainerEl == 1

Max(S) == CHOOSE x \in S : \A y \in S : y <= x

\* requestAnimationFrame: a handle no pending request has
NewFrame(br) == Max(br.frames \cup {0}) + 1

Disconnect(w, o) ==
    IF o = 0 THEN w
    ELSE [w EXCEPT !.br.observers[o].connected = FALSE,
                   !.br.mutations = @ \ {o}]

\* new ResizeObserver / new MutationObserver, then observe(containerEl)
Observe(w, kind) ==
    [w EXCEPT !.br.observers = Append(@, [kind |-> kind, connected |-> TRUE,
                                          since |-> Len(w.apps)])]

\* scheduleAdaptiveScale that requests a frame without cancelling the
\* pending request
scheduleAdaptiveScale_NoCancel(w) ==
    LET f == NewFrame(w.br)
    IN  [w EXCEPT !.ad.frame = f, !.br.frames = @ \cup {f},
                  !.br.requests = @ + 1, !.br.since = Len(w.apps)]

\* scheduleAdaptiveScale(containerEl)
scheduleAdaptiveScale(w) ==
    LET w1 == IF w.ad.frame # 0
              THEN [w EXCEPT !.br.frames = @ \ {w.ad.frame}]
              ELSE w
        f  == NewFrame(w1.br)
    IN  [w1 EXCEPT !.ad.frame = f, !.br.frames = @ \cup {f},
                   !.br.requests = @ + 1, !.br.since = Len(w.apps)]

\* ensureAdaptiveScaling without the container check: new observers on
\* every call, the old ones left connected
ensureAdaptiveScaling_Always(w, containerEl) ==
    LET w3 == [Observe(w, "resize") EXCEPT
                   !.ad.resizeObserver = Len(w.br.observers) + 1]
        w4 == [Observe(w3, "mutation") EXCEPT
                   !.ad.mutationObserver = Len(w3.br.observers) + 1]
    IN  IF ~w.br.hasResizeObserver
        THEN Thrown(w, "ResizeObserver is not defined")
        ELSE Returned(scheduleAdaptiveScale(w4))

\* ensureAdaptiveScaling: where the page has no ResizeObserver,
\* `new ResizeObserver` throws a ReferenceError
ensureAdaptiveScaling(w, containerEl) ==
    IF w.ad.container # containerEl THEN
        LET w1 == [w EXCEPT !.ad.container = containerEl]
            w2 == Disconnect(Disconnect(w1, w.ad.resizeObserver), w.ad.mutationObserver)
            w3 == [Observe(w2, "resize") EXCEPT
                       !.ad.resizeObserver = Len(w2.br.observers) + 1]
            w4 == [Observe(w3, "mutation") EXCEPT
                       !.ad.mutationObserver = Len(w3.br.observers) + 1]
        IN  IF ~w.br.hasResizeObserver
            THEN Thrown(w2, "ResizeObserver is not defined")
            ELSE Returned(scheduleAdaptiveScale(w4))
    ELSE Returned(scheduleAdaptiveScale(w))

\* container.innerHTML = `<div class="error-message">...</div>`
showError(w, message) ==
    RecordMutation([w EXCEPT !.doc.mount = 0,
                             !.doc.loading = FALSE,
                             !.doc.error = message])

\* the document after showLoading(): mount element 1 and the loading message
LoadingDocument == [mount |-> 1, loading |-> TRUE, error |-> "", html |-> <<{}>>]

\* loadingEl.remove()
RemoveLoading(w) ==
    IF w.doc.loading THEN RecordMutation([w EXCEPT !.doc.loading = FALSE]) ELSE w

\* containerEl.innerHTML = '<div id="preview-mount"></div>'
ResetContainer(w) ==
    RecordMutation([w EXCEPT !.doc.mount = Len(w.doc.html) + 1,
                             !.doc.loading = FALSE,
                             !.doc.error = "",
                             !.doc.html = Append(@, {})])

\* a catch block that rethrows instead of showing the message
CatchRenderError_Rethrow(w, message) == [w |-> w, uncaught |-> TRUE]

\* the catch block of renderPreview and of the message listener
CatchRenderError(w, message) == [w |-> showError(w, message), uncaught |-> FALSE]

-----------------------------------------------------------------------------
(* The preview service page: its handlers                                  *)

ObjectAB == (<<97>> :> [t |-> "string", v |-> <<98>>])    \* {a: "b"}
JsonAB   == <<123, 34, 97, 34, 58, 34, 98, 34, 125>>      \* '{"a":"b"}'

\* query strings: ?code= absent, empty, a document, an invalid base64 string
\* or bytes that are no UTF-8; ?components= absent, an object or an array
Urls ==
    [ code : {Absent, Str(<<>>), Str(Btoa(DocA)), Str(Btoa(DocBlank)), Str(Btoa(DocThrow)),
              Str(<<33>> \o Btoa(DocA)), Str(Btoa(<<255>>))},
      components : {Absent, Str(Btoa(JsonAB)), Str(Btoa(<<91, 53, 93>>))},
      mode : {"post", "none"} ]

\* event.data of a message
Messages ==
    [ type : {"preview-code", "render", "other"},
      code : {DocEmpty, DocBlank, DocA, DocB, DocThrow},
      components : {Absent, [t |-> "object", v |-> ObjectAB], Str(Btoa(JsonAB)),
                    Str(<<33>> \o Btoa(JsonAB))} ]

InitService ==
    /\ payload = Absent
    /\ ParserNotStarted
    /\ ScaleNotStarted
    /\ StoreNotStarted
    /\ HelpersNotCalled
    /\ StageNotMounted
    /\ adapterOut = NoCall
    /\ url \in Urls
    /\ state = [app |-> 0]                      \* createPreviewState()
    /\ apps = <<>>
    /\ document = LoadingDocument               \* showLoading()
    /\ adaptive = NoAdaptive
    /\ browser \in {NoBrowser(b) : b \in BOOLEAN}
    /\ task = [NoTask EXCEPT !.pc = "start"]
    /\ log = NoLog
    /\ ReactNotStarted

Commit(w) ==
    /\ state' = w.state
    /\ apps' = w.apps
    /\ document' = w.doc
    /\ adaptive' = w.ad
    /\ browser' = w.br

\* a renderPreview that reports the missing document in every mode
NoContent_AlwaysError(w, mode) ==
    showError(w, "No content provided. Use ?code=base64_encoded_slidev_markdown")

\* renderPreview when `!code`
NoContent(w, mode) ==
    IF mode = "post" THEN w
    ELSE showError(w, "No content provided. Use ?code=base64_encoded_slidev_markdown")

\* renderPreview() up to `await renderVueComponent(...)`
RenderPreview ==
    /\ task.pc = "start"
    /\ LET code == getCodeFromUrl(url.code)
           components == getComponentsFromUrl(url.components)
           escaped == code.threw \/ components.threw
       IN  IF document.mount = 0 THEN
               /\ Commit(showError(World, "Preview container not found"))
               /\ task' = [NoTask EXCEPT !.pc = "idle"]
               /\ log' = [log EXCEPT !.n = 1, !.last = "failed", !.failed = TRUE,
                                     !.uncaught = escaped]
           ELSE IF code.null \/ code.value = <<>> THEN
               /\ Commit(NoContent(World, url.mode))
               /\ task' = [NoTask EXCEPT !.pc = "idle"]
               /\ log' = [log EXCEPT !.n = 1,
                                     !.last = IF url.mode = "post" THEN "noop" ELSE "nocontent",
                                     !.uncaught = escaped]
           ELSE
               LET r == renderVueComponent(World, code.value, document.mount, 1)
               IN  /\ Commit(r.w)
                   /\ task' = [pc |-> "urlAwait", threw |-> r.threw, message |-> r.message]
                   /\ log' = [log EXCEPT !.n = 1,
                                         !.latest = [n |-> 1, doc |-> code.value],
                                         !.uncaught = escaped]
    /\ UNCHANGED <<decVars, url, reactVars>>

\* the message listener up to `await renderVueComponent(...)`
Message(m) ==
    /\ task.pc = "idle"
    /\ browser.mutations = {}
    /\ log.n < MaxRequests
    /\ IF m.type # "preview-code" THEN
           /\ log' = [log EXCEPT !.n = @ + 1, !.last = "ignored"]
           /\ UNCHANGED <<state, apps, document, adaptive, browser, task>>
       ELSE
           LET components == normalizeComponents(m.components)
           IN  IF m.code = <<>> THEN
                   /\ log' = [log EXCEPT !.n = @ + 1, !.last = "noop",
                                         !.uncaught = @ \/ components.threw]
                   /\ UNCHANGED <<state, apps, document, adaptive, browser, task>>
               ELSE
                   LET w1 == IF document.mount = 0 THEN ResetContainer(World) ELSE World
                       r  == renderVueComponent(w1, m.code, w1.doc.mount, log.n + 1)
                   IN  /\ Commit(r.w)
                       /\ task' = [pc |-> "msgAwait", threw |-> r.threw,
                                   message |-> r.message]
                       /\ log' = [log EXCEPT !.n = @ + 1,
                                             !.latest = [n |-> log.n + 1, doc |-> m.code],
                                             !.uncaught = @ \/ components.threw]
    /\ UNCHANGED <<decVars, url, reactVars>>

\* what follows the await, in renderPreview and in the listener: the rest of
\* the try block, or the catch block
AfterRender ==
    /\ task.pc \in {"urlAwait", "msgAwait"}
    /\ browser.mutations = {}
    /\ IF task.threw THEN
           LET c == CatchRenderError(World, task.message)
           IN  /\ Commit(c.w)
               /\ log' = [log EXCEPT !.last = "failed", !.failed = TRUE,
                                     !.uncaught = @ \/ c.uncaught]
       ELSE
           LET w1 == IF task.pc = "urlAwait" THEN RemoveLoading(World) ELSE World
               r  == ensureAdaptiveScaling(w1, ContainerEl)
               c  == CatchRenderError(r.w, r.message)
           IN  IF r.threw THEN
                   /\ Commit(c.w)
                   /\ log' = [log EXCEPT !.last = "failed", !.failed = TRUE,
                                         !.uncaught = @ \/ c.uncaught]
               ELSE
                   /\ Commit(r.w)
                   /\ log' = [log EXCEPT !.last = "rendered",
                                         !.rendered = apps[state.app].doc,
                                         !.scalings = @ + 1]
    /\ task' = [NoTask EXCEPT !.pc = "idle"]
    /\ UNCHANGED <<decVars, url, reactVars>>

\* a MutationObserver callback (a microtask): () => scheduleAdaptiveScale(containerEl)
MutationCallback(o) ==
    /\ o \in browser.mutations
    /\ Commit(scheduleAdaptiveScale([World EXCEPT !.br.mutations = @ \ {o}]))
    /\ UNCHANGED <<decVars, url, task, log, reactVars>>

\* a ResizeObserver callback: () => scheduleAdaptiveScale(containerEl)
ResizeCallback(o) ==
    /\ task.pc = "idle"
    /\ browser.mutations = {}
    /\ o \in ConnectedOfKind(browser, "resize")
    /\ browser.requests < MaxCallbacks
    /\ Commit(scheduleAdaptiveScale(World))
    /\ UNCHANGED <<decVars, url, task, log, reactVars>>

\* the requestAnimationFrame callback of scheduleAdaptiveScale
AnimationFrame(f) ==
    /\ task.pc = "idle"
    /\ browser.mutations = {}
    /\ f \in browser.frames
    /\ Commit([World EXCEPT !.br.frames = @ \ {f}, !.ad.frame = 0,
                             !.br.requests = 0, !.br.since = 0])
    /\ UNCHANGED <<decVars, url, task, log, reactVars>>

\* the load event of the frame that shows the page, handled by handleFrameLoad
\* of PreviewStage: it fires once, after the module script has run up to its
\* first await; the page itself posts nothing to its host
FrameLoad ==
    /\ task.pc \notin {"off", "start"}
    /\ ~log.loaded
    /\ log' = [log EXCEPT !.loaded = TRUE]
    /\ UNCHANGED <<decVars, url, state, apps, document, adaptive, browser, task, reactVars>>

NextService ==
    \/ RenderPreview
    \/ FrameLoad
    \/ \E m \in Messages : Message(m)
    \/ AfterRender
    \/ \E o \in browser.mutations : MutationCallback(o)
    \/ \E o \in ConnectedObservers(browser) : ResizeCallback(o)
    \/ \E f \in browser.frames : AnimationFrame(f)

SpecService == InitService /\ [][NextService]_vars

-----------------------------------------------------------------------------
(* A client of VuePreview.ts: any sequence of renderVueComponent and       *)
(* cleanupPreview calls on one PreviewState, with two elements to mount in *)

TwoElements == [mount |-> 1, loading |-> FALSE, error |-> "", html |-> <<{}, {}>>]
ApiTask(threw, message) == [pc |-> "api", threw |-> threw, message |-> message]

InitApi ==
    /\ payload = Absent
    /\ ParserNotStarted
    /\ ScaleNotStarted
    /\ StoreNotStarted
    /\ HelpersNotCalled
    /\ StageNotMounted
    /\ adapterOut = NoCall
    /\ url = NoUrl
    /\ state = [app |-> 0]
    /\ apps = <<>>
    /\ document = TwoElements
    /\ adaptive = NoAdaptive
    /\ browser = NoBrowser(TRUE)
    /\ task = ApiTask(FALSE, "")
    /\ log = NoLog
    /\ ReactNotStarted

CallRenderVueComponent(code, mountEl) ==
    /\ task.pc = "api"
    /\ log.n < MaxCalls
    /\ LET r == renderVueComponent(World, code, mountEl, log.n + 1)
       IN  /\ Commit(r.w)
           /\ task' = ApiTask(r.threw, r.message)
    /\ log' = [log EXCEPT !.n = @ + 1, !.last = "render"]
    /\ UNCHANGED <<decVars, url, reactVars>>

CallCleanupPreview(mountEl) ==
    /\ task.pc = "api"
    /\ log.n < MaxCalls
    /\ Commit(cleanupPreview(World, mountEl))
    /\ task' = ApiTask(FALSE, "")
    /\ log' = [log EXCEPT !.n = @ + 1, !.last = "cleanup"]
    /\ UNCHANGED <<decVars, url, reactVars>>

NextApi ==
    \/ \E code \in {DocEmpty, DocBlank, DocA, DocB, DocThrow}, el \in {1, 2} :
          CallRenderVueComponent(code, el)
    \/ \E el \in {0, 1, 2} : CallCleanupPreview(el)

SpecApi == InitApi /\ [][NextApi]_vars

-----------------------------------------------------------------------------
(* Claims about the preview service                                        *)

\* apps that have been created and on which unmount() has not been called
LiveApps == {a \in DOMAIN apps : apps[a].status # "unmounted"}

\* C1: at most one app that was created and not yet unmounted exists, and
\* it is the one the PreviewState holds; the elements hold the nodes of no
\* other app; a render that fails on a blank document leaves no app at all,
\* one that fails while mounting leaves only the new app.
C1_AtMostOneLiveApp ==
    /\ Cardinality(LiveApps) <= 1
    /\ LiveApps = {state.app} \ {0}
    /\ \A el \in DOMAIN document.html : document.html[el] \subseteq LiveApps
    /\ (log.last = "render" /\ task.threw) =>
          /\ \A el \in DOMAIN document.html : document.html[el] = {}
          /\ state.app # 0 => state.app = Len(apps) /\ apps[state.app].status = "created"

\* C1 witness: a third app is mounted after the second render failed while
\* mounting, and both earlier apps are unmounted
C1_Witness ==
    /\ Len(apps) >= 3
    /\ apps[1].status = "unmounted"
    /\ apps[2].doc \in ThrowingDocs /\ apps[2].status = "unmounted"
    /\ apps[3].status = "mounted"
    /\ state.app = 3

\* the handler is at its await after a render that succeeded, an earlier
\* render of another document has completed: the second of two consecutive
\* renders, right before its ensureAdaptiveScaling
SecondRenderMounted ==
    /\ task.pc \in {"urlAwait", "msgAwait"}
    /\ ~task.threw
    /\ log.scalings >= 1
    /\ log.rendered # apps[state.app].doc

ValidDoc(doc) == ~IsBlank(doc) /\ doc \notin ThrowingDocs

\* C8: every app that is not unmounted is the app of the most recent request
\* that carried a non-empty document, no element holds nodes of another app,
\* and when that request's document renders, its app is the mounted one.
C8_LatestRequestWins ==
    /\ \A a \in LiveApps :
          /\ a = state.app
          /\ apps[a].req = log.latest.n
          /\ apps[a].doc = log.latest.doc
    /\ \A el \in DOMAIN document.html : document.html[el] \subseteq LiveApps
    /\ (log.latest.n > 0 /\ ValidDoc(log.latest.doc)) =>
          /\ state.app # 0
          /\ apps[state.app].status = "mounted"
          /\ apps[state.app].req = log.latest.n

\* C8 witness: three requests with documents were received, the third one's
\* app is mounted and the earlier two are unmounted
C8_Witness ==
    /\ task.pc = "idle"
    /\ Len(apps) = 3
    /\ apps[1].status = "unmounted" /\ apps[2].status = "unmounted"
    /\ apps[3].status = "mounted" /\ apps[3].req = 3
    /\ apps[3].doc # apps[2].doc

\* C9: no exception leaves renderPreview or the message listener; after a
\* failed render the container shows the error message; after a render that
\* succeeded the app is mounted in the mount element of the container (which
\* the listener re-creates after an error); and a request with a document
\* that renders fails only when ensureAdaptiveScaling throws, which it can
\* do on its first call only.
C9_RenderFailuresShown ==
    /\ ~log.uncaught
    /\ (task.pc = "idle" /\ log.last = "failed") =>
          document.error # "" /\ document.mount = 0
    /\ (task.pc = "idle" /\ log.last = "rendered") =>
          /\ document.error = ""
          /\ document.mount # 0
          /\ state.app # 0
          /\ apps[state.app].status = "mounted"
          /\ apps[state.app].el = document.mount
          /\ document.html[document.mount] = {state.app}
    /\ (task.pc = "idle" /\ log.latest.n = log.n /\ log.n > 0 /\ ValidDoc(log.latest.doc)) =>
          /\ log.last \in {"rendered", "failed"}
          /\ log.last = "failed" => ~browser.hasResizeObserver /\ log.scalings = 0

\* C9 witness: an earlier render failed and its error was shown, then a
\* message was rendered into a re-created mount element
C9_Witness ==
    /\ task.pc = "idle"
    /\ log.failed
    /\ log.last = "rendered"
    /\ document.mount > 1
    /\ document.error = ""

-----------------------------------------------------------------------------
(* The React VuePreview component                                          *)

\* component sources: blank; without a template; a script or a template
\* that does not compile; one whose app.mount throws; ones that mount, with
\* style generation resolving to CSS, resolving to blank CSS or rejecting.
\* The mount element has the class "relative", so there always is a class
\* token to generate CSS for.
Sources ==
    { Source("blank", FALSE, "none"),
      Source("notemplate", TRUE, "none"),
      Source("badscript", TRUE, "none"),
      Source("badtemplate", TRUE, "none"),
      Source("mountthrows", TRUE, "none"),
      Source("ok", TRUE, "css"),
      Source("ok", FALSE, "css"),
      Source("ok", FALSE, "blank"),
      Source("ok", TRUE, "reject") }

\* the closure of one effect run: app, styleEl, unoStyleEl, resizeObserver
\* and disposed are its variables (TRUE for non-null); appStatus and
\* observing are what became of the app and the observer themselves; pc is
\* where mountPreview stands, returned whether applyUnoStyles returns a node
NewSession(c) ==
    [ code |-> c, app |-> FALSE, appStatus |-> "none", styleEl |-> FALSE,
      unoStyleEl |-> FALSE, resizeObserver |-> FALSE, observing |-> FALSE,
      disposed |-> FALSE, disposedAt |-> "none", pc |-> "sync", rejected |-> FALSE,
      returned |-> FALSE ]

Component == [error |-> error, sessions |-> sessions, head |-> head, unhandled |-> unhandled]

\* mountPreview that looks for the template after it has built the rest
mountPreview_LateTemplateCheck(r, s) ==
    LET r1 == [r EXCEPT !.sessions[s].styleEl = TRUE, !.head = @ \cup {<<s, "vue">>},
                        !.sessions[s].app = TRUE, !.sessions[s].appStatus = "created"]
    IN  IF r.sessions[s].code.kind = "notemplate"
        THEN Thrown(r1, "Missing <template> block.")
        ELSE Thrown(r, "script error")

\* mountPreview up to `await applyUnoStyles(...)`, which suspends at
\* `await unoPromise`
mountPreview(r, s) ==
    LET c  == r.sessions[s].code
        r1 == IF c.styles
              THEN [r EXCEPT !.sessions[s].styleEl = TRUE, !.head = @ \cup {<<s, "vue">>}]
              ELSE r
        r2 == [r1 EXCEPT !.sessions[s].app = TRUE, !.sessions[s].appStatus = "created"]
        r3 == [r2 EXCEPT !.sessions[s].appStatus = "mounted",
                         !.sessions[s].resizeObserver = TRUE,
                         !.sessions[s].observing = TRUE,
                         !.sessions[s].pc = "awaitUno"]
    IN  IF c.kind = "notemplate" THEN Thrown(r, "Missing <template> block.")
        ELSE IF c.kind = "badscript" THEN Thrown(r, "script error")
        ELSE IF c.kind = "badtemplate" THEN Thrown(r, "template error")
        ELSE IF c.kind = "mountthrows" THEN Thrown(r2, "mount error")
        ELSE Returned(r3)

\* the catch block of run
runCatch(r, s, message) ==
    [r EXCEPT !.sessions[s].pc = "failed",
              !.error = IF r.sessions[s].disposed THEN @ ELSE message]

\* run() up to the first await
run(r, s) ==
    LET m == mountPreview([r EXCEPT !.error = ""], s)
    IN  IF m.threw THEN runCatch(m.w, s, m.message) ELSE m.w

\* a cleanup that keeps the style nodes and the observer
effectCleanup_KeepsNodes(r, s) ==
    [r EXCEPT !.sessions[s].disposed = TRUE,
              !.sessions[s].app = FALSE,
              !.sessions[s].appStatus = IF r.sessions[s].app THEN "unmounted" ELSE @]

\* the cleanup function the effect returns
effectCleanup(r, s) ==
    LET ss == r.sessions[s]
    IN  [r EXCEPT !.sessions[s].disposed = TRUE,
                  !.sessions[s].disposedAt = ss.pc,
                  !.sessions[s].app = FALSE,
                  !.sessions[s].appStatus = IF ss.app THEN "unmounted" ELSE @,
                  !.sessions[s].styleEl = FALSE,
                  !.sessions[s].unoStyleEl = FALSE,
                  !.sessions[s].resizeObserver = FALSE,
                  !.sessions[s].observing = IF ss.resizeObserver THEN FALSE ELSE @,
                  !.head = @ \ ( (IF ss.styleEl THEN {<<s, "vue">>} ELSE {})
                                 \cup (IF ss.unoStyleEl THEN {<<s, "uno">>} ELSE {}) )]

\* a continuation that keeps the node whether or not the session is disposed
mountPreviewResume_NoDisposedCheck(r, s) ==
    [r EXCEPT !.sessions[s].unoStyleEl = r.sessions[s].returned,
              !.sessions[s].pc = "done"]

\* mountPreview after `await applyUnoStyles(...)` returned a style node or
\* null
mountPreviewResume(r, s) ==
    LET r1 == [r EXCEPT !.sessions[s].unoStyleEl = r.sessions[s].returned,
                        !.sessions[s].pc = "done"]
    IN  IF r1.sessions[s].disposed /\ r1.sessions[s].unoStyleEl
        THEN [r1 EXCEPT !.head = @ \ {<<s, "uno">>}, !.sessions[s].unoStyleEl = FALSE]
        ELSE r1

CommitComponent(r) ==
    /\ error' = r.error
    /\ sessions' = r.sessions
    /\ head' = r.head
    /\ unhandled' = r.unhandled

InitReact ==
    /\ payload = Absent
    /\ ParserNotStarted
    /\ ScaleNotStarted
    /\ StoreNotStarted
    /\ HelpersNotCalled
    /\ StageNotMounted
    /\ adapterOut = NoCall
    /\ ServiceNotStarted
    /\ props \in {[code |-> c] : c \in Sources}
    /\ error = ""
    /\ refs = TRUE
    /\ fiber = [alive |-> TRUE, effectDue |-> TRUE, effect |-> 0]
    /\ sessions = <<>>
    /\ head = {}
    /\ unhandled = FALSE

\* the parent renders the component with another code; the commit attaches
\* the refs when the container is rendered and detaches them when the error
\* is rendered instead
Render(c) ==
    /\ fiber.alive /\ ~fiber.effectDue
    /\ c # props.code
    /\ Len(sessions) < MaxSessions
    /\ props' = [code |-> c]
    /\ refs' = (error = "")
    /\ fiber' = [fiber EXCEPT !.effectDue = TRUE]
    /\ UNCHANGED <<decVars, svcVars, error, sessions, head, unhandled>>

\* the render that follows setError
Rerender ==
    /\ fiber.alive /\ ~fiber.effectDue
    /\ refs # (error = "")
    /\ refs' = (error = "")
    /\ UNCHANGED <<decVars, svcVars, props, error, fiber, sessions, head, unhandled>>

\* the effect of [code]: the previous cleanup, then the effect body with
\* run() up to its first await
FlushEffects ==
    /\ fiber.alive /\ fiber.effectDue
    /\ LET r1 == IF fiber.effect # 0 THEN effectCleanup(Component, fiber.effect)
                 ELSE Component
           s  == Len(sessions) + 1
           r2 == [r1 EXCEPT !.sessions = Append(@, NewSession(props.code))]
       IN  IF ~refs THEN
               /\ CommitComponent(r1)
               /\ fiber' = [fiber EXCEPT !.effectDue = FALSE, !.effect = 0]
           ELSE IF props.code.kind = "blank" THEN
               /\ CommitComponent([r1 EXCEPT !.error = "No Vue component code provided."])
               /\ fiber' = [fiber EXCEPT !.effectDue = FALSE, !.effect = 0]
           ELSE
               /\ CommitComponent(run(r2, s))
               /\ fiber' = [fiber EXCEPT !.effectDue = FALSE, !.effect = s]
    /\ UNCHANGED <<decVars, svcVars, props, refs>>

\* React removes the component: the cleanup of the last effect runs
Unmount ==
    /\ fiber.alive
    /\ CommitComponent(IF fiber.effect # 0 THEN effectCleanup(Component, fiber.effect)
                       ELSE Component)
    /\ fiber' = NoFiber
    /\ refs' = FALSE
    /\ UNCHANGED <<decVars, svcVars, props>>

\* applyUnoStyles after `await unoPromise`: the tokens are collected and
\* uno.generate is called
UnoReady(s) ==
    /\ sessions[s].pc = "awaitUno"
    /\ sessions' = [sessions EXCEPT ![s].pc = "awaitGenerate"]
    /\ UNCHANGED <<decVars, svcVars, props, error, refs, fiber, head, unhandled>>

\* applyUnoStyles after `await uno.generate(...)`: the style node is
\* appended to document.head and returned, null is returned for blank CSS,
\* or the rejection is passed on
GenerateSettled(s) ==
    /\ sessions[s].pc = "awaitGenerate"
    /\ IF sessions[s].code.uno = "reject"
       THEN /\ sessions' = [sessions EXCEPT ![s].pc = "awaitApply", ![s].rejected = TRUE]
            /\ head' = head
       ELSE IF sessions[s].code.uno = "blank"
       THEN /\ sessions' = [sessions EXCEPT ![s].pc = "awaitApply"]
            /\ head' = head
       ELSE /\ sessions' = [sessions EXCEPT ![s].pc = "awaitApply", ![s].returned = TRUE]
            /\ head' = head \cup {<<s, "uno">>}
    /\ UNCHANGED <<decVars, svcVars, props, error, refs, fiber, unhandled>>

\* mountPreview after `await applyUnoStyles(...)`, or the catch of run
ApplyReturned(s) ==
    /\ sessions[s].pc = "awaitApply"
    /\ IF sessions[s].rejected
       THEN CommitComponent(runCatch(Component, s, "style generation failed"))
       ELSE CommitComponent(mountPreviewResume(Component, s))
    /\ UNCHANGED <<decVars, svcVars, props, refs, fiber>>

NextReact ==
    \/ \E c \in Sources : Render(c)
    \/ Rerender
    \/ FlushEffects
    \/ Unmount
    \/ \E s \in DOMAIN sessions : UnoReady(s)
    \/ \E s \in DOMAIN sessions : GenerateSettled(s)
    \/ \E s \in DOMAIN sessions : ApplyReturned(s)

SpecReact == InitReact /\ [][NextReact]_vars

\* the two preview pages
Init == InitService \/ InitReact
Next == NextService \/ NextReact
Spec == Init /\ [][Next]_vars

-----------------------------------------------------------------------------
(* Properties of the React VuePreview component                            *)

StyleNodesOf(s) == {n \in head : n[1] = s}
Settled(s) == sessions[s].pc \in {"done", "failed"}
Clean(s) ==
    /\ sessions[s].appStatus # "mounted"
    /\ ~sessions[s].observing
    /\ StyleNodesOf(s) = {}

\* C3: a session whose effect cleanup has run has no mounted app, no
\* connected ResizeObserver and no style node of its own in document.head
\* whenever none of its style-generation continuations is pending, also when
\* the cleanup ran while applyUnoStyles was awaited.
C3_DisposedSessionIsClean ==
    \A s \in DOMAIN sessions : (sessions[s].disposed /\ Settled(s)) => Clean(s)

\* C3 witness: a session was cleaned up while it awaited applyUnoStyles, the
\* style generation then produced a node, and the continuation has run
C3_Witness ==
    \E s \in DOMAIN sessions :
        /\ sessions[s].disposed
        /\ sessions[s].disposedAt \in {"awaitUno", "awaitGenerate", "awaitApply"}
        /\ sessions[s].returned
        /\ sessions[s].pc = "done"

\* C4: while the error message of a session whose mount failed is displayed,
\* that session has no mounted app, no style node in document.head and no
\* connected observer.
C4_FailedSessionIsClean ==
    \A s \in DOMAIN sessions :
        (sessions[s].pc = "failed" /\ error # "") => Clean(s)

\* C5: once the effect of a component source that mounts has run and the
\* component has rendered, the app of that source is mounted, and the error
\* message is cleared unless its own style generation failed, whatever was
\* displayed before.
C5_ErrorsRecoverable ==
    (fiber.alive /\ ~fiber.effectDue /\ props.code.kind = "ok") =>
        /\ fiber.effect # 0
        /\ sessions[fiber.effect].code = props.code
        /\ sessions[fiber.effect].appStatus = "mounted"
        /\ props.code.uno # "reject" => error = ""

\* C6: a session of a source without a template has failed with no app
\* created, no style node injected and no observer connected; until its
\* cleanup the component's error is "Missing <template> block.", which the
\* component renders in place of the preview container; no exception leaves
\* the component.
C6_MissingTemplateFailsEarly ==
    /\ ~unhandled
    /\ \A s \in DOMAIN sessions :
          sessions[s].code.kind = "notemplate" =>
              /\ sessions[s].pc = "failed"
              /\ sessions[s].appStatus = "none"
              /\ ~sessions[s].app /\ ~sessions[s].styleEl /\ ~sessions[s].resizeObserver
              /\ Clean(s)
              /\ ~sessions[s].disposed => error = "Missing <template> block."

\* C6 witness: a source without a template followed one that was mounted;
\* its message is displayed and nothing of either session is left
C6_Witness ==
    /\ Len(sessions) = 2
    /\ sessions[1].code.kind = "ok" /\ sessions[1].disposed
    /\ sessions[2].code.kind = "notemplate" /\ ~sessions[2].disposed
    /\ error = "Missing <template> block."
    /\ ~refs
    /\ head = {}

ExpectedNodes(s) ==
    (IF sessions[s].code.styles THEN {<<s, "vue">>} ELSE {})
        \cup (IF sessions[s].code.uno = "css" THEN {<<s, "uno">>} ELSE {})

\* C7: the number of style nodes and connected observers depends on the
\* payload rendered last, not on the renders before it.  In the preview
\* service a completed render leaves the container's two observers (none
\* where ResizeObserver is missing).  In the React component at most one
\* session has a mounted app, a connected observer or a component style
\* node, and once the current session and all earlier continuations have
\* finished, document.head holds exactly the current session's style nodes.
C7_CountsDoNotGrow ==
    /\ (task.pc = "idle" /\ log.last = "rendered") =>
          /\ ConnectedObservers(browser)
               = {adaptive.resizeObserver, adaptive.mutationObserver} \ {0}
          /\ Cardinality(ConnectedObservers(browser))
               = IF browser.hasResizeObserver THEN 2 ELSE 0
    /\ Cardinality({s \in DOMAIN sessions : sessions[s].observing}) <= 1
    /\ Cardinality({s \in DOMAIN sessions : sessions[s].appStatus = "mounted"}) <= 1
    /\ Cardinality({n \in head : n[2] = "vue"}) <= 1
    /\ \A s \in DOMAIN sessions :
          (s = fiber.effect /\ sessions[s].pc = "done" /\ \A t \in DOMAIN sessions : Settled(t)) =>
              /\ head = ExpectedNodes(s)
              /\ {t \in DOMAIN sessions : sessions[t].observing} = {s}
              /\ {t \in DOMAIN sessions : sessions[t].appStatus = "mounted"} = {s}

\* C7 witness: the same source is rendered again after another one; its
\* third session is mounted with its two style nodes and one observer
C7_Witness ==
    /\ Len(sessions) = 3
    /\ sessions[1].code = sessions[3].code
    /\ fiber.effect = 3
    /\ \A t \in DOMAIN sessions : Settled(t)
    /\ sessions[3].pc = "done"
    /\ Cardinality(head) = 2

-----------------------------------------------------------------------------
(* Requests of the preview service                                         *)

\* a 'preview-code' message whose components string does not decode
MalformedRequest(m) ==
    /\ m.type = "preview-code"
    /\ m.components.t = "string"
    /\ MalformedComponents(m.components.v)

\* C11: when an app is mounted, the listener's handling of a message whose
\* components string fails to decode leaves the apps, the app in use and
\* the container's content as they were: nothing is unmounted or replaced.
C11_DecodeFailureKeepsRender ==
    [][\A m \in Messages :
          (/\ MalformedRequest(m)
           /\ state.app # 0
           /\ apps[state.app].status = "mounted"
           /\ Message(m)) => UNCHANGED <<state, apps, document>>]_vars

\* C12: the listener's handling of a message of type "render" or
\* "preview-code" with a non-empty code starts a render of that code (it
\* becomes the latest document and the handler reaches its await); its
\* handling of a message of any other type changes nothing of the page.
C12_RenderMessagesRender ==
    [][\A m \in Messages :
          Message(m) =>
             IF m.type \in {"render", "preview-code"}
             THEN m.code # <<>> =>
                     /\ log'.latest = [n |-> log'.n, doc |-> m.code]
                     /\ task'.pc = "msgAwait"
             ELSE UNCHANGED <<state, apps, document, adaptive, browser, task>>]_vars

\* the query string carries no document: no code parameter, an empty one,
\* one that atob rejects, or one that decodes to the empty text (bytes that
\* are not UTF-8 decode to U+FFFD and are a document to renderPreview)
NoDocument(u) ==
    \/ u.code.t = "absent"
    \/ u.code.v = <<>>
    \/ InvalidBase64(u.code.v)
    \/ Atob(u.code.v).ok /\ TextDecode(Atob(u.code.v).bytes) = <<>>

\* C13: renderPreview with no document in the query string changes nothing
\* of the page when the URL has mode=post, and otherwise replaces the
\* container's content by the 'No content provided' error, creating no app;
\* the listener's handling of a 'preview-code' message without code changes
\* nothing of the page.
C13_NoDocumentIsNoOp ==
    [][/\ (RenderPreview /\ NoDocument(url)) =>
            /\ task'.pc = "idle"
            /\ UNCHANGED <<state, apps, adaptive>>
            /\ IF url.mode = "post"
               THEN UNCHANGED <<document, browser>>
               ELSE /\ document'.error
                         = "No content provided. Use ?code=base64_encoded_slidev_markdown"
                    /\ document'.mount = 0
                    /\ ~document'.loading
       /\ \A m \in Messages :
            (m.type = "preview-code" /\ m.code = <<>> /\ Message(m)) =>
                UNCHANGED <<state, apps, document, adaptive, browser, task>>]_vars

\* C13 witness: the page was loaded with mode=post and no document,
\* renderPreview has returned and the loading message is still shown
C13_Witness ==
    /\ url.mode = "post"
    /\ NoDocument(url)
    /\ log.n = 1
    /\ task.pc = "idle"
    /\ document = LoadingDocument

\* C14: at most one animation-frame request is pending, the one whose handle
\* adaptiveScaleFrame holds; every observer callback leaves exactly one
\* request pending, however many were made since the last frame; and the
\* frame callback (the one applyAdaptiveScale run) leaves none pending.
C14_RescalesCoalesce ==
    /\ [](/\ Cardinality(browser.frames) <= 1
          /\ browser.frames = {adaptive.frame} \ {0}
          /\ browser.requests > 0 <=> browser.frames # {})
    /\ [][(\E o \in DOMAIN browser.observers : MutationCallback(o) \/ ResizeCallback(o))
             => Cardinality(browser'.frames) = 1]_vars
    /\ [][\A f \in browser.frames :
             AnimationFrame(f) => browser'.frames = {} /\ adaptive'.frame = 0]_vars

\* C14 witness: scheduleAdaptiveScale was called at least three times since
\* the last frame, and one request is pending
C14_Witness ==
    /\ task.pc = "idle"
    /\ browser.requests >= 3
    /\ Cardinality(browser.frames) = 1

-----------------------------------------------------------------------------
(* parseSlidevRegex of VuePreview.ts                                       *)

ChLf == 10
ChCr == 13
ChSpace == 32

RECURSIVE Normalize(_)
\* markdown.replace(/\r\n/g, '\n')
Normalize(s) ==
    IF s = <<>> THEN <<>>
    ELSE IF Len(s) >= 2 /\ s[1] = ChCr /\ s[2] = ChLf
    THEN <<ChLf>> \o Normalize(SubSeq(s, 3, Len(s)))
    ELSE <<s[1]>> \o Normalize(Tail(s))

DelimAtStart == <<ChMinus, ChMinus, ChMinus, ChLf>>
DelimAfterLine == <<ChLf, ChMinus, ChMinus, ChMinus, ChLf>>

\* the length of the match of /(?:^|\n)---\n/ at position q of s, 0 if none:
\* without the m flag ^ matches at the start of the text only
MatchLen(s, q) ==
    IF q = 1 /\ StartsWith(s, 1, DelimAtStart) THEN 4
    ELSE IF StartsWith(s, q, DelimAfterLine) THEN 5
    ELSE 0

RECURSIVE SplitFrom(_, _, _)
\* String.prototype.split: p is where the current part starts, q the
\* position the separator is tried at
SplitFrom(s, p, q) ==
    IF q > Len(s) THEN <<SubSeq(s, p, Len(s))>>
    ELSE IF MatchLen(s, q) = 0 THEN SplitFrom(s, p, q + 1)
    ELSE <<SubSeq(s, p, q - 1)>>
             \o SplitFrom(s, q + MatchLen(s, q), q + MatchLen(s, q))

\* normalized.split(/(?:^|\n)---\n/)
Split(s) == SplitFrom(s, 1, 1)

RECURSIVE FirstIndex(_, _, _)
\* the first position from i on where s has ch, 0 if none
FirstIndex(s, ch, i) ==
    IF i > Len(s) THEN 0
    ELSE IF s[i] = ch THEN i
    ELSE FirstIndex(s, ch, i + 1)

RECURSIVE LinesOf(_)
LinesOf(s) ==
    LET k == FirstIndex(s, ChLf, 1)
    IN  IF k = 0 THEN <<s>>
        ELSE <<SubSeq(s, 1, k - 1)>> \o LinesOf(SubSeq(s, k + 1, Len(s)))

RECURSIVE DropBlank(_)
DropBlank(ls) ==
    IF ls = <<>> THEN <<>>
    ELSE IF IsBlank(Head(ls)) THEN DropBlank(Tail(ls))
    ELSE <<Head(ls)>> \o DropBlank(Tail(ls))

RECURSIVE KeyEnd(_, _)
\* the position of the ':' that ends the key of a "key: value" line: the
\* first ':' followed by a space or by the end of the line, 0 if none
KeyEnd(line, i) ==
    IF i > Len(line) THEN 0
    ELSE IF line[i] = ChColon /\ (i = Len(line) \/ line[i + 1] = ChSpace) THEN i
    ELSE KeyEnd(line, i + 1)

\* a block sequence entry: "- item"
IsSeqItem(line) ==
    /\ line # <<>> /\ line[1] = ChMinus
    /\ Len(line) = 1 \/ line[2] = ChSpace

\* a block mapping entry with a plain one-word key: "key: value" or "key:"
IsEntry(line) ==
    /\ ~IsSeqItem(line)
    /\ KeyEnd(line, 1) > 1
    /\ ChSpace \notin Range(SubSeq(line, 1, KeyEnd(line, 1) - 1))

RECURSIVE TrimSpaces(_)
TrimSpaces(v) ==
    IF v # <<>> /\ Head(v) = ChSpace THEN TrimSpaces(Tail(v))
    ELSE IF v # <<>> /\ v[Len(v)] = ChSpace THEN TrimSpaces(SubSeq(v, 1, Len(v) - 1))
    ELSE v

\* a plain scalar: null, an integer or a string
YamlScalar(v) ==
    IF v = <<>> THEN [t |-> "null", v |-> 0]
    ELSE IF Range(v) \subseteq Digits THEN [t |-> "number", v |-> DigitsValue(v)]
    ELSE [t |-> "string", v |-> v]

EntryKey(line) == SubSeq(line, 1, KeyEnd(line, 1) - 1)
EntryValue(line) == YamlScalar(TrimSpaces(SubSeq(line, KeyEnd(line, 1) + 1, Len(line))))

RECURSIVE YamlMapping(_)
YamlMapping(ls) ==
    IF ls = <<>> THEN <<>>
    ELSE (EntryKey(Head(ls)) :> EntryValue(Head(ls))) @@ YamlMapping(Tail(ls))

\* yaml.load(part) for a part whose lines are not indented and hold no
\* quotes, flow collections, comments or document markers: a mapping, a
\* sequence, nothing (undefined), or something that is no object (a scalar,
\* or the exception the caller catches)
YamlLoad(part) ==
    LET ls == DropBlank(LinesOf(part))
        keys == {EntryKey(ls[i]) : i \in DOMAIN ls}
    IN  IF ls = <<>> THEN [t |-> "undefined", v |-> 0]
        ELSE IF \A i \in DOMAIN ls : IsSeqItem(ls[i])
        THEN [t |-> "sequence", v |-> ls]
        ELSE IF (\A i \in DOMAIN ls : IsEntry(ls[i])) /\ Cardinality(keys) = Len(ls)
        THEN [t |-> "mapping", v |-> YamlMapping(ls)]
        ELSE [t |-> "other", v |-> 0]

\* doc && typeof doc === 'object'
IsYamlObject(doc) == doc.t \in {"mapping", "sequence"}

\* let pendingFrontmatter = {}
NoFrontmatter == [t |-> "mapping", v |-> <<>>]

\* a part that the final loop takes as frontmatter
IsFrontmatter(part) == ChColon \in Range(part) /\ IsYamlObject(YamlLoad(part))

RECURSIVE ResultSlides(_, _)
\* parts.forEach of the final loop, with pendingFrontmatter as it stands
ResultSlides(parts, pendingFrontmatter) ==
    IF parts = <<>> THEN <<>>
    ELSE IF IsFrontmatter(Head(parts))
    THEN ResultSlides(Tail(parts), YamlLoad(Head(parts)))
    ELSE <<[frontmatter |-> pendingFrontmatter, content |-> Head(parts)]>>
             \o ResultSlides(Tail(parts), NoFrontmatter)

\* parseSlidevRegex(markdown): its first loop fills an array that is not
\* returned, the result is the final loop's
parseSlidevRegex(text) == ResultSlides(Split(Normalize(text)), NoFrontmatter)

\* blocks of a document: empty, blank, plain text, mappings, a line with a
\* colon that is no mapping, a list of "key: value" items
BlkEmpty  == <<>>
BlkBlank  == <<ChSpace>>
BlkTitle  == <<84, 105, 116, 108, 101>>    \* "Title"
BlkHello  == <<72, 101, 108, 108, 111>>    \* "Hello"
BlkTheme  == <<116, 104, 101, 109, 101, 58, 32, 100, 97, 114, 107>>    \* "theme: dark"
BlkAB     == <<97, 58, 32, 49, 10, 98, 58, 32, 50>>    \* "a: 1\nb: 2"
BlkB3     == <<98, 58, 32, 51>>    \* "b: 3"
BlkColon  == <<97, 58, 98>>    \* "a:b"
BlkList   == <<45, 32, 97, 58, 32, 49>>    \* "- a: 1"
Blocks == {BlkEmpty, BlkBlank, BlkTitle, BlkHello, BlkTheme, BlkAB, BlkB3, BlkColon, BlkList}

BlockLists == UNION {[1..n -> Blocks] : n \in 1..MaxBlocks}

DelimLine(eol) == eol \o <<ChMinus, ChMinus, ChMinus>> \o eol

RECURSIVE Join(_, _)
\* the blocks, one delimiter line between two of them
Join(bs, eol) ==
    IF Len(bs) = 1 THEN bs[1]
    ELSE bs[1] \o DelimLine(eol) \o Join(Tail(bs), eol)

\* documents: blocks separated by delimiter lines, with no, one or two
\* delimiter lines at the start, with or without a delimiter as the last
\* line, with \n or \r\n line ends
Documents ==
    { lead \o Join(bs, eol) \o tail :
        lead \in {<<>>, DelimAtStart, DelimAtStart \o DelimAtStart},
        bs \in BlockLists,
        tail \in {<<>>, <<ChLf, ChMinus, ChMinus, ChMinus>>},
        eol \in {<<ChLf>>, <<ChCr, ChLf>>} }

InitParser ==
    /\ markdown \in Documents
    /\ parseOut = NoParse
    /\ ScaleNotStarted
    /\ StoreNotStarted
    /\ HelpersNotCalled
    /\ StageNotMounted
    /\ payload = Absent
    /\ adapterOut = NoCall
    /\ ServiceNotStarted
    /\ ReactNotStarted

CallParseSlidevRegex ==
    /\ ~parseOut.done
    /\ parseOut' = [done |-> TRUE, slides |-> parseSlidevRegex(markdown)]
    /\ UNCHANGED <<payload, adapterOut, markdown, scaleVars, storeVars, pureVars, stage, svcVars, reactVars>>

NextParser == CallParseSlidevRegex

SpecParser == InitParser /\ [][NextParser]_vars

-----------------------------------------------------------------------------
(* Properties of parseSlidevRegex                                          *)

\* the delimiter-separated blocks of the document
BlocksOf(text) == Split(Normalize(text))

IsContentBlock(part) == ~IsBlank(part) /\ ~IsFrontmatter(part)

\* C16: parseSlidevRegex emits one slide for every block that is neither
\* all-whitespace nor taken as frontmatter, in order, and no other slide: a
\* blank block gives no slide and a content block is not dropped.
C16_OneSlidePerContentBlock ==
    parseOut.done =>
        LET content == SelectSeq(BlocksOf(markdown), IsContentBlock)
        IN  /\ Len(parseOut.slides) = Len(content)
            /\ \A i \in DOMAIN parseOut.slides : parseOut.slides[i].content = content[i]

\* the first non-blank block of the document when it is a mapping
FirstBlock(text) ==
    LET parts == SelectSeq(BlocksOf(text), LAMBDA part : ~IsBlank(part))
    IN  IF parts # <<>> /\ IsFrontmatter(parts[1]) /\ YamlLoad(parts[1]).t = "mapping"
        THEN YamlLoad(parts[1]).v
        ELSE <<>>

\* a mapping block of the document sets key k to value val
SomeBlockSets(text, k, val) ==
    \E i \in DOMAIN BlocksOf(text) :
        LET y == YamlLoad(BlocksOf(text)[i])
        IN  y.t = "mapping" /\ k \in DOMAIN y.v /\ y.v[k] = val

\* a: 1, b: 2 / b: 3 / Title
MergeExample == Join(<<BlkAB, BlkB3, BlkTitle>>, <<ChLf>>)
MergedAB3 == (<<97>> :> [t |-> "number", v |-> 1]) @@ (<<98>> :> [t |-> "number", v |-> 3])

\* C17: every slide's frontmatter is a mapping that has every key of the
\* document's first block, with the first block's value unless a later
\* mapping block of the document sets the key; for the document with
\* defaults {a:1,b:2}, a slide block {b:3} and one content block the
\* slide's frontmatter is {a:1,b:3}.
C17_DefaultsMerged ==
    parseOut.done =>
        /\ \A i \in DOMAIN parseOut.slides :
              LET fm == parseOut.slides[i].frontmatter
              IN  /\ fm.t = "mapping"
                  /\ \A k \in DOMAIN FirstBlock(markdown) :
                        /\ k \in DOMAIN fm.v
                        /\ \/ fm.v[k] = FirstBlock(markdown)[k]
                           \/ SomeBlockSets(markdown, k, fm.v[k])
        /\ markdown = MergeExample =>
              /\ Len(parseOut.slides) = 1
              /\ parseOut.slides[1].frontmatter.v = MergedAB3

\* C18: for a document made of a delimiter line, a mapping block, a
\* delimiter line and one content block, parseSlidevRegex returns exactly
\* one slide, with the content block as content and the mapping as
\* frontmatter.
C18_LeadingFrontmatterOneSlide ==
    parseOut.done =>
        \A m, c \in Blocks :
            (/\ YamlLoad(m).t = "mapping"
             /\ IsContentBlock(c)
             /\ Normalize(markdown) = DelimAtStart \o m \o DelimAfterLine \o c)
            => parseOut.slides = <<[frontmatter |-> YamlLoad(m), content |-> c]>>

\* C19: for a document of n non-blank blocks none of which parses as a
\* mapping, separated by single delimiter lines and without a leading
\* delimiter, parseSlidevRegex returns n slides, the blocks in order, each
\* with the empty frontmatter.
C19_PlainBlocksInOrder ==
    parseOut.done =>
        \A bs \in BlockLists :
            (/\ \A i \in DOMAIN bs : ~IsBlank(bs[i]) /\ YamlLoad(bs[i]).t # "mapping"
             /\ Normalize(markdown) = Join(bs, <<ChLf>>))
            => parseOut.slides
                 = [i \in DOMAIN bs |-> [frontmatter |-> NoFrontmatter, content |-> bs[i]]]

\* the frontmatter pending at block i: the mapping of the last non-blank
\* block before i when that block is frontmatter, otherwise the empty one
PendingAt(parts, i) ==
    LET before == {j \in 1..(i - 1) : ~IsBlank(parts[j])}
        last == CHOOSE j \in before : \A k \in before : k <= j
    IN  IF before # {} /\ IsFrontmatter(parts[last]) THEN YamlLoad(parts[last])
        ELSE NoFrontmatter

\* the indices of the content blocks, in order
ContentIndices(parts) ==
    LET all == [i \in DOMAIN parts |-> i]
    IN  SelectSeq(all, LAMBDA i : IsContentBlock(parts[i]))

\* C22: the slides with content are the content blocks in source order,
\* and each carries the mapping of the most recent frontmatter block seen
\* since the previous content block, the empty mapping if there is none.
C22_FrontmatterOnNextContent ==
    parseOut.done =>
        LET parts == BlocksOf(markdown)
            idx == ContentIndices(parts)
            shown == SelectSeq(parseOut.slides, LAMBDA sl : ~IsBlank(sl.content))
        IN  shown = [k \in DOMAIN idx |->
                        [frontmatter |-> PendingAt(parts, idx[k]), content |-> parts[idx[k]]]]

\* C34: when the last block of the document that is not blank is a
\* frontmatter mapping, no slide is emitted for it or after it, and the
\* slides are those of the blocks before it.
C34_TrailingFrontmatterDropped ==
    parseOut.done =>
        LET parts == BlocksOf(markdown)
            shown == {i \in DOMAIN parts : ~IsBlank(parts[i])}
            last == CHOOSE i \in shown : \A j \in shown : j <= i
        IN  (shown # {} /\ YamlLoad(parts[last]).t = "mapping")
                => parseOut.slides = ResultSlides(SubSeq(parts, 1, last - 1), NoFrontmatter)

RECURSIVE BlocksByLine(_, _, _)
\* the blocks of a text given as lines, when every line that is exactly
\* "---" ends a block: cur is the block so far, started whether it has a line
BlocksByLine(ls, cur, started) ==
    IF ls = <<>> THEN <<cur>>
    ELSE IF Head(ls) = <<ChMinus, ChMinus, ChMinus>>
    THEN <<cur>> \o BlocksByLine(Tail(ls), <<>>, FALSE)
    ELSE BlocksByLine(Tail(ls),
                      IF started THEN cur \o <<ChLf>> \o Head(ls) ELSE Head(ls),
                      TRUE)

\* C23: the blocks parseSlidevRegex works on are the runs of lines between
\* the lines that are exactly "---": every such line is a boundary, also
\* the second of two in a row and one on the last line without a newline
\* after it, and no other line is.
C23_EveryDelimiterLineSplits ==
    parseOut.done =>
        BlocksOf(markdown) = BlocksByLine(LinesOf(Normalize(markdown)), <<>>, FALSE)

-----------------------------------------------------------------------------
(* Rescaling: applyAdaptiveScale of main.ts, updateScale of VuePreview.tsx *)

SLIDE_WIDTH == 1920
SLIDE_HEIGHT == 1080

\* a number as a fraction num/den with den > 0
Frac(n, d) == [num |-> n, den |-> d]
FracLeq(x, y) == x.num * y.den <= y.num * x.den
FracEq(x, y) == x.num * y.den = y.num * x.den
FracMin(x, y) == IF FracLeq(x, y) THEN x ELSE y
FracMax(x, y) == IF FracLeq(x, y) THEN y ELSE x

\* applyAdaptiveScale for one .preview-scale-target: what it sets
\* target.style.transform to
applyAdaptiveScale(t) ==
    IF ~t.slideInner THEN NoTransform
    ELSE IF t.availableWidth = 0 \/ t.availableHeight = 0 THEN NoTransform
    ELSE IF t.contentWidth = 0 \/ t.contentHeight = 0 THEN NoTransform
    ELSE [applied |-> TRUE,
          scale |-> FracMin(Frac(1, 1),
                            FracMin(Frac(t.availableWidth, t.contentWidth),
                                    Frac(t.availableHeight, t.contentHeight)))]

\* updateScale that never scales up
\* updateScale with offsets that are the whole space left over
updateScale_NoHalving(t) ==
    IF ~t.refs \/ t.width = 0 \/ t.height = 0 THEN NoTransform
    ELSE LET scale == FracMin(Frac(t.width, SLIDE_WIDTH), Frac(t.height, SLIDE_HEIGHT))
             left(size, slide) ==
                 Frac(size * scale.den - slide * scale.num, scale.den)
         IN  [applied |-> TRUE,
              scale |-> scale,
              offsetX |-> FracMax(left(t.width, SLIDE_WIDTH), Frac(0, 1)),
              offsetY |-> FracMax(left(t.height, SLIDE_HEIGHT), Frac(0, 1))]

updateScale_Clamped(t) ==
    IF ~t.refs \/ t.width = 0 \/ t.height = 0 THEN NoTransform
    ELSE LET scale == FracMin(Frac(1, 1), FracMin(Frac(t.width, SLIDE_WIDTH),
                                                  Frac(t.height, SLIDE_HEIGHT)))
             left(size, slide) ==
                 Frac(size * scale.den - slide * scale.num, 2 * scale.den)
         IN  [applied |-> TRUE,
              scale |-> scale,
              offsetX |-> FracMax(left(t.width, SLIDE_WIDTH), Frac(0, 1)),
              offsetY |-> FracMax(left(t.height, SLIDE_HEIGHT), Frac(0, 1))]

\* updateScale of the React VuePreview: the translate offsets and the scale
\* it sets mountRef.current.style.transform to
updateScale(t) ==
    IF ~t.refs THEN NoTransform
    ELSE IF t.width = 0 \/ t.height = 0 THEN NoTransform
    ELSE LET scale == FracMin(Frac(t.width, SLIDE_WIDTH), Frac(t.height, SLIDE_HEIGHT))
             left(size, slide) ==
                 Frac(size * scale.den - slide * scale.num, 2 * scale.den)
         IN  [applied |-> TRUE,
              scale |-> scale,
              offsetX |-> FracMax(left(t.width, SLIDE_WIDTH), Frac(0, 1)),
              offsetY |-> FracMax(left(t.height, SLIDE_HEIGHT), Frac(0, 1))]

\* what applyAdaptiveScale reads: whether the target is inside a
\* .slide-inner, that element's client size, the target's scroll size
TargetLayouts ==
    [ fn : {"applyAdaptiveScale"}, slideInner : BOOLEAN,
      availableWidth : 0..MaxSize, availableHeight : 0..MaxSize,
      contentWidth : 0..MaxSize, contentHeight : 0..MaxSize ]

\* what updateScale reads: whether the refs are attached, the container's
\* bounding rectangle (here in halves of the slide's size)
ContainerLayouts ==
    [ fn : {"updateScale"}, refs : BOOLEAN,
      width : {k * (SLIDE_WIDTH \div 2) : k \in 0..MaxSize},
      height : {k * (SLIDE_HEIGHT \div 2) : k \in 0..MaxSize} ]

InitScale ==
    /\ layout \in TargetLayouts \cup ContainerLayouts
    /\ transform = NoTransform
    /\ StoreNotStarted
    /\ HelpersNotCalled
    /\ StageNotMounted
    /\ payload = Absent
    /\ adapterOut = NoCall
    /\ ParserNotStarted
    /\ ServiceNotStarted
    /\ ReactNotStarted

CallApplyAdaptiveScale ==
    /\ layout.fn = "applyAdaptiveScale"
    /\ transform = NoTransform
    /\ transform' = applyAdaptiveScale(layout)
    /\ UNCHANGED <<payload, adapterOut, parseVars, layout, storeVars, pureVars, stage, svcVars, reactVars>>

CallUpdateScale ==
    /\ layout.fn = "updateScale"
    /\ transform = NoTransform
    /\ transform' = updateScale(layout)
    /\ UNCHANGED <<payload, adapterOut, parseVars, layout, storeVars, pureVars, stage, svcVars, reactVars>>

NextScale == CallApplyAdaptiveScale \/ CallUpdateScale

SpecScale == InitScale /\ [][NextScale]_vars

-----------------------------------------------------------------------------
(* Properties of the rescale                                               *)

\* container-width / content-width and container-height / content-height
WidthRatio ==
    IF layout.fn = "updateScale" THEN Frac(layout.width, SLIDE_WIDTH)
    ELSE Frac(layout.availableWidth, layout.contentWidth)
HeightRatio ==
    IF layout.fn = "updateScale" THEN Frac(layout.height, SLIDE_HEIGHT)
    ELSE Frac(layout.availableHeight, layout.contentHeight)

\* C20 as claimed: the factor a rescale applies is the smaller of the width
\* ratio and the height ratio, and it is at most 1.
C20_SmallerRatioAtMostOne ==
    transform.applied =>
        /\ FracEq(transform.scale, FracMin(WidthRatio, HeightRatio))
        /\ FracLeq(transform.scale, Frac(1, 1))

\* C20 as amended: a rescale applies one factor, which is at most both
\* ratios.  applyAdaptiveScale applies the smaller ratio clamped to 1, so
\* its factor never exceeds 1.  updateScale applies the smaller ratio
\* unclamped: its factor exceeds 1 exactly when the container is both wider
\* and higher than the 1920x1080 slide.
C20_ScaleFitsContainer ==
    transform.applied =>
        /\ FracLeq(transform.scale, WidthRatio)
        /\ FracLeq(transform.scale, HeightRatio)
        /\ layout.fn = "applyAdaptiveScale" =>
              /\ FracEq(transform.scale,
                        FracMin(Frac(1, 1), FracMin(WidthRatio, HeightRatio)))
              /\ FracLeq(transform.scale, Frac(1, 1))
        /\ layout.fn = "updateScale" =>
              /\ FracEq(transform.scale, FracMin(WidthRatio, HeightRatio))
              /\ ~FracLeq(transform.scale, Frac(1, 1))
                    <=> (layout.width > SLIDE_WIDTH /\ layout.height > SLIDE_HEIGHT)

\* C20 witness: updateScale has scaled the slide up in a container larger
\* than the slide
C20_Witness ==
    /\ layout.fn = "updateScale"
    /\ transform.applied
    /\ layout.width > SLIDE_WIDTH /\ layout.height > SLIDE_HEIGHT
    /\ ~FracLeq(transform.scale, Frac(1, 1))

RECURSIVE GCD(_, _)
GCD(a, b) == IF b = 0 THEN a ELSE GCD(b, a % b)

\* fractions in lowest terms, their sum, and a whole multiple of one
FracReduce(x) ==
    LET g == GCD(IF x.num < 0 THEN -x.num ELSE x.num, x.den)
    IN  Frac(x.num \div g, x.den \div g)
FracPlus(x, y) ==
    LET a == FracReduce(x)
        b == FracReduce(y)
    IN  FracReduce(Frac(a.num * b.den + b.num * a.den, a.den * b.den))
FracTimes(k, x) == LET a == FracReduce(x) IN FracReduce(Frac(k * a.num, a.den))

\* C35: for a container of positive width and height updateScale sets
\* translate offsets that are not negative and are half of what the
\* scaled 1920x1080 slide leaves of the container in each dimension, and
\* the scaled slide is no larger than the container; with a width or a
\* height of zero it sets no transform.
C35_ScaledSlideCentered ==
    (layout.fn = "updateScale" /\ transform # NoTransform) =>
        /\ layout.width > 0 /\ layout.height > 0
        /\ FracLeq(Frac(0, 1), transform.offsetX)
        /\ FracLeq(Frac(0, 1), transform.offsetY)
        /\ FracPlus(FracTimes(2, transform.offsetX), FracTimes(SLIDE_WIDTH, transform.scale))
              = Frac(layout.width, 1)
        /\ FracPlus(FracTimes(2, transform.offsetY), FracTimes(SLIDE_HEIGHT, transform.scale))
              = Frac(layout.height, 1)
        /\ FracLeq(FracTimes(SLIDE_WIDTH, transform.scale), Frac(layout.width, 1))
        /\ FracLeq(FracTimes(SLIDE_HEIGHT, transform.scale), Frac(layout.height, 1))

\* C35 witness: a container half as wide and as high as the slide: the
\* slide is scaled by 1/2 and moved down by a quarter of its height
C35_Witness ==
    /\ layout.fn = "updateScale"
    /\ layout.width * 2 = SLIDE_WIDTH /\ layout.height = SLIDE_HEIGHT
    /\ transform.applied
    /\ FracEq(transform.scale, Frac(1, 2))
    /\ FracEq(transform.offsetX, Frac(0, 1))
    /\ FracEq(transform.offsetY, Frac(SLIDE_HEIGHT, 4))

\* C21: the signal the host waits for before it posts a document (the load
\* event of the frame, the only signal the page gives) is given after the
\* first successful attach and not before.
C21_ReadyAfterFirstAttach ==
    log.loaded => \E a \in DOMAIN apps : apps[a].status # "created"

\* C32: after a successful render, through the URL or through a
\* 'preview-code' message, the 'Loading preview...' element is no longer
\* in the preview container.
C32_LoadingRemovedAfterRender ==
    (task.pc = "idle" /\ log.last = "rendered") => ~document.loading

-----------------------------------------------------------------------------
(* The session store of the web app (web/stores/session.ts): its actions,  *)
(* split at their awaits, the API behind request() and the poll interval   *)

\* the store, the awaited requests and the API side as one value
Pinia == [st |-> store, reqs |-> inflight, be |-> backend]

CommitStore(w) ==
    /\ store' = w.st
    /\ inflight' = w.reqs
    /\ backend' = w.be

FreeSlots(reqs) == {i \in DOMAIN reqs : reqs[i] = NoRequest}
BusySlots(reqs) == DOMAIN reqs \ FreeSlots(reqs)

\* `await request(path)`: the path holds the sessionId of the moment; seen
\* collects what the API's session has been while the request is awaited;
\* chain names the callers that resume after the function awaiting returns
Request(w, fn, chain) ==
    LET i == CHOOSE i \in FreeSlots(w.reqs) : \A j \in FreeSlots(w.reqs) : i <= j
        sid == IF fn = "startSession" THEN 0 ELSE w.st.sessionId
    IN  [w EXCEPT !.reqs[i] = [fn |-> fn, sid |-> sid,
                               seen |-> IF sid = 0 THEN {} ELSE {w.be.sessions[sid]},
                               chain |-> chain]]

\* the API's session id moves to phase p
SetPhase(w, id, p) ==
    [w EXCEPT !.be.sessions[id] = p,
              !.reqs = [i \in DOMAIN @ |->
                          IF @[i] # NoRequest /\ @[i].sid = id
                          THEN [@[i] EXCEPT !.seen = @ \cup {p}]
                          ELSE @[i]]]

stopPolling(w) ==
    [w EXCEPT !.be.timers = @ \ {w.st.pollTimer},    \* clearInterval, if (this.pollTimer)
              !.st.pollTimer = 0,
              !.st.isPolling = FALSE]

\* startPolling without its first statement
startPolling_NoGuard(w) ==
    LET t == CHOOSE t \in 1..(Cardinality(w.be.timers) + 1) :
                 /\ t \notin w.be.timers
                 /\ \A u \in 1..(t - 1) : u \in w.be.timers
    IN  [w EXCEPT !.st.isPolling = TRUE, !.st.pollTimer = t, !.be.timers = @ \cup {t}]

startPolling(w) ==
    IF w.st.isPolling THEN w
    ELSE LET t == CHOOSE t \in 1..(Cardinality(w.be.timers) + 1) :
                      /\ t \notin w.be.timers
                      /\ \A u \in 1..(t - 1) : u \in w.be.timers
         IN  [w EXCEPT !.st.isPolling = TRUE, !.st.pollTimer = t, !.be.timers = @ \cup {t}]

RECURSIVE Resume(_, _)
\* the callers resume, innermost first: fetchStatus after `await
\* this.fetchResult()`, loadSession after `await this.fetchStatus()`
Resume(w, chain) ==
    IF chain = <<>> THEN w
    ELSE IF Head(chain) = "fetchStatus"
    THEN Resume(IF w.st.status = "error" THEN stopPolling(w) ELSE w, Tail(chain))
    ELSE \* "loadSession"; its fetchResult is its last statement
         IF w.st.status = "completed"
         THEN IF w.st.sessionId = 0 THEN w ELSE Request(w, "fetchResult", <<>>)
         ELSE startPolling(w)

fetchResult(w, chain) ==
    IF w.st.sessionId = 0 THEN Resume(w, chain)
    ELSE Request(w, "fetchResult", chain)

fetchStatus(w, chain) ==
    IF w.st.sessionId = 0 THEN Resume(w, chain)
    ELSE Request(w, "fetchStatus", chain)

startSession(w) ==
    Request([w EXCEPT !.st.status = "pending", !.st.result = 0], "startSession", <<>>)

addSupplement(w) ==
    IF w.st.sessionId = 0 THEN w ELSE Request(w, "addSupplement", <<>>)

updateOutline(w) ==
    IF w.st.sessionId = 0 THEN w ELSE Request(w, "updateOutline", <<>>)

confirmOutline(w) ==
    IF w.st.sessionId = 0 THEN w ELSE Request(w, "confirmOutline", <<>>)

\* sendPrompt with a prompt that is not blank
sendPrompt(w) ==
    IF w.st.sessionId = 0 \/ w.st.status \in {"completed", "error"} THEN startSession(w)
    ELSE IF w.st.status \in {"draft", "outline_ready"} THEN addSupplement(w)
    ELSE w

\* loadSession(id) with an id that is not empty
loadSession(w, id) ==
    Request([w EXCEPT !.st.sessionId = id, !.st.result = 0], "loadSession", <<>>)

resetSession(w) ==
    stopPolling([w EXCEPT !.st.sessionId = 0, !.st.status = "idle", !.st.result = 0])

\* how an awaited request can end: rejected, or resolved with the session's
\* status as it was at some moment since the request was made
Rejected == [ok |-> FALSE]
Responses(w, r) ==
    {Rejected} \cup
    IF r.fn = "startSession"
    THEN {[ok |-> TRUE, id |-> i, status |-> "draft"] :
            i \in {i \in DOMAIN w.be.sessions :
                     /\ w.be.sessions[i] = "none"
                     /\ \A j \in 1..(i - 1) : w.be.sessions[j] # "none"}}
    ELSE IF r.fn = "fetchResult"
    THEN {[ok |-> TRUE, status |-> p] : p \in r.seen \cap {"completed"}}
    ELSE IF r.fn = "confirmOutline"
    THEN {[ok |-> TRUE, status |-> IF p = "draft" THEN "generating" ELSE p] :
            p \in {w.be.sessions[r.sid]} \ {"none"}}
    ELSE {[ok |-> TRUE, status |-> p] : p \in r.seen \ {"none"}}

\* what runs when the request in slot i ends with resp: the rest of the try
\* block or the catch block of the function that awaits it, then its callers
Settle(w, i, resp) ==
    LET r  == w.reqs[i]
        w0 == [w EXCEPT !.reqs[i] = NoRequest]
        failed == [w0 EXCEPT !.st.status = "error"]
    IN  IF r.fn = "startSession" THEN
            IF resp.ok
            THEN [SetPhase(w0, resp.id, "draft") EXCEPT !.st.sessionId = resp.id,
                                                        !.st.status = resp.status]
            ELSE failed
        ELSE IF r.fn \in {"addSupplement", "updateOutline"} THEN
            IF resp.ok THEN [w0 EXCEPT !.st.status = resp.status] ELSE failed
        ELSE IF r.fn = "confirmOutline" THEN
            IF resp.ok
            THEN startPolling([SetPhase(w0, r.sid, resp.status) EXCEPT !.st.status = resp.status])
            ELSE failed
        ELSE IF r.fn = "fetchStatus" THEN
            IF resp.ok
            THEN LET w1 == [w0 EXCEPT !.st.status = resp.status]
                 IN  IF resp.status = "completed"
                     THEN fetchResult(stopPolling(w1), <<"fetchStatus">> \o r.chain)
                     ELSE Resume(w1, <<"fetchStatus">> \o r.chain)
            ELSE Resume(stopPolling(failed), r.chain)
        ELSE IF r.fn = "fetchResult" THEN
            IF resp.ok
            THEN Resume([w0 EXCEPT !.st.result = r.sid, !.st.status = "completed"], r.chain)
            ELSE Resume(failed, r.chain)
        ELSE \* "loadSession", awaiting the outline
            IF resp.ok
            THEN fetchStatus([w0 EXCEPT !.st.status = resp.status], <<"loadSession">>)
            ELSE failed

InitStore ==
    /\ StoreNotStarted
    /\ HelpersNotCalled
    /\ StageNotMounted
    /\ payload = Absent
    /\ adapterOut = NoCall
    /\ ParserNotStarted
    /\ ScaleNotStarted
    /\ ServiceNotStarted
    /\ ReactNotStarted

otherVars == <<payload, adapterOut, parseVars, scaleVars, pureVars, stage, svcVars, reactVars>>

\* a call of a store action by the page: the action up to its first await
UserAction(name, w) ==
    /\ hist.actions < MaxActions
    /\ CommitStore(w)
    /\ hist' = [actions |-> hist.actions + 1, last |-> name, user |-> name,
                ended |-> BusySlots(w.reqs) = BusySlots(inflight)]
    /\ UNCHANGED otherVars

SendPrompt == FreeSlots(inflight) # {} /\ UserAction("sendPrompt", sendPrompt(Pinia))
UpdateOutline == FreeSlots(inflight) # {} /\ UserAction("updateOutline", updateOutline(Pinia))
ConfirmOutline == FreeSlots(inflight) # {} /\ UserAction("confirmOutline", confirmOutline(Pinia))
LoadSession(id) == FreeSlots(inflight) # {} /\ UserAction("loadSession", loadSession(Pinia, id))
ResetSession == UserAction("resetSession", resetSession(Pinia))

\* the setInterval callback: () => { void this.fetchStatus() }
Tick(t) ==
    /\ t \in backend.timers
    /\ FreeSlots(inflight) # {}
    /\ CommitStore(fetchStatus(Pinia, <<>>))
    /\ hist' = [hist EXCEPT !.last = "tick", !.ended = store.sessionId = 0]
    /\ UNCHANGED otherVars

\* an awaited request resolves or rejects
Deliver(i, resp) ==
    /\ i \in BusySlots(inflight)
    /\ resp \in Responses(Pinia, inflight[i])
    /\ LET w == Settle(Pinia, i, resp)
       IN  /\ CommitStore(w)
           /\ hist' = [hist EXCEPT !.last = inflight[i].fn,
                                   !.ended = Cardinality(BusySlots(w.reqs))
                                               < Cardinality(BusySlots(inflight))]
    /\ UNCHANGED otherVars

\* the generation of a session ends on the API's side
Generated(id, p) ==
    /\ backend.sessions[id] = "generating"
    /\ CommitStore(SetPhase(Pinia, id, p))
    /\ hist' = [hist EXCEPT !.last = "api", !.ended = FALSE]
    /\ UNCHANGED otherVars

NextStore ==
    \/ SendPrompt
    \/ UpdateOutline
    \/ ConfirmOutline
    \/ \E id \in 1..MaxIds : LoadSession(id)
    \/ ResetSession
    \/ \E t \in backend.timers : Tick(t)
    \/ \E i \in BusySlots(inflight) : \E resp \in Responses(Pinia, inflight[i]) : Deliver(i, resp)
    \/ \E id \in 1..MaxIds : \E p \in {"completed", "error"} : Generated(id, p)

SpecStore == InitStore /\ [][NextStore]_vars

-----------------------------------------------------------------------------
(* Properties of the session store                                         *)

StatusPolls == {i \in BusySlots(inflight) :
                  inflight[i].fn = "fetchStatus" /\ inflight[i].chain = <<>>}

\* C24: when the status is 'completed', the result is fetched, polling has
\* stopped and nothing but status polls is still awaited, a step that is no
\* user action leaves the status 'completed' and the result in place.
C24_CompletedStaysCompleted ==
    [][(/\ store.status = "completed" /\ store.result # 0 /\ ~store.isPolling
        /\ BusySlots(inflight) = StatusPolls
        /\ hist'.actions = hist.actions)
       => (store'.status = "completed" /\ store'.result = store.result)]_vars

\* C25: at most one startSession request is awaited at any time.
C25_OneSessionCreation ==
    Cardinality({i \in BusySlots(inflight) : inflight[i].fn = "startSession"}) <= 1

\* C26: when a store action has just finished and the status is 'completed'
\* or 'error', the store is not polling and no interval is live.
C26_NoPollingWhenSettled ==
    (hist.ended /\ store.status \in {"completed", "error"})
        => (~store.isPolling /\ store.pollTimer = 0 /\ backend.timers = {})

IsReset(st) == st = NewStore

\* C27: after resetSession() a step that is no user action leaves the store
\* reset: empty sessionId, status 'idle', no result, no polling.
C27_ResetStaysReset ==
    [][(hist.user = "resetSession" /\ IsReset(store) /\ hist'.actions = hist.actions)
       => IsReset(store')]_vars

\* the store's polling actions called by the page themselves
StartPolling == UserAction("startPolling", startPolling(Pinia))
StopPolling == UserAction("stopPolling", stopPolling(Pinia))
FetchStatus == FreeSlots(inflight) # {} /\ UserAction("fetchStatus", fetchStatus(Pinia, <<>>))

NextPolling ==
    \/ NextStore
    \/ StartPolling
    \/ StopPolling
    \/ FetchStatus

SpecPolling == InitStore /\ [][NextPolling]_vars

\* C31: isPolling is true exactly when pollTimer holds an interval, the
\* interval pollTimer holds is live, and no other interval is live.
C31_PollingFlagMatchesTimer ==
    /\ store.isPolling <=> store.pollTimer # 0
    /\ backend.timers = IF store.pollTimer # 0 THEN {store.pollTimer} ELSE {}
    /\ Cardinality(backend.timers) <= 1

\* startPolling() called by the page as its second or later action, the
\* interval live and a status poll of that interval awaited
C31_Witness ==
    /\ hist.user = "startPolling"
    /\ hist.actions >= 2
    /\ store.isPolling
    /\ backend.timers = {store.pollTimer}
    /\ \E i \in BusySlots(inflight) : inflight[i].fn = "fetchStatus"

-----------------------------------------------------------------------------
(* Disposal: cleanupPreview of VuePreview.ts and the effect cleanup of the *)
(* React component, under the clients of both                             *)

InitDisposal == InitApi \/ InitReact
NextDisposal == NextApi \/ NextReact
SpecDisposal == InitDisposal /\ [][NextDisposal]_vars

\* C28: a second cleanupPreview(state, mountEl) right after a first leaves
\* the preview state, the apps and the document as the first left them, and
\* no app is unmounted more than once; a second run of the effect cleanup
\* of a session right after a first leaves the component, its sessions and
\* the style nodes as the first left them.
C28_DisposalIdempotent ==
    /\ \A el \in {0} \cup DOMAIN document.html :
          LET once == cleanupPreview(World, el)
              twice == cleanupPreview(once, el)
          IN  /\ twice.state = once.state
              /\ twice.apps = once.apps
              /\ twice.doc = once.doc
              /\ \A a \in DOMAIN twice.apps : twice.apps[a].unmounts <= 1
    /\ \A s \in DOMAIN sessions :
          LET once == effectCleanup(Component, s)
          IN  effectCleanup(once, s) = once

\* C28 witness: cleanupPreview has just unmounted an app and emptied its
\* element
C28_Witness ==
    /\ log.last = "cleanup"
    /\ state.app = 0
    /\ \E a \in DOMAIN apps : apps[a].unmounts = 1 /\ document.html[apps[a].el] = {}

-----------------------------------------------------------------------------
(* The transport encoding: encodeBase64 / encodeJsonBase64 of the web app  *)
(* (web/utils/encoding.ts) against decodeBase64 / parseComponentsPayload   *)
(* of the preview page                                                     *)

RECURSIVE TextEncode(_)
\* new TextEncoder().encode(value): UTF-8, a lone surrogate becomes U+FFFD
TextEncode(s) ==
    IF s = <<>> THEN <<>>
    ELSE LET c == IF IsSurrogate(s[1]) THEN Replacement ELSE s[1]
             bytes == IF c < 128 THEN <<c>>
                      ELSE IF c < 2048 THEN <<192 + (c \div 64), 128 + (c % 64)>>
                      ELSE IF c < 65536
                      THEN <<224 + (c \div 4096), 128 + ((c \div 64) % 64), 128 + (c % 64)>>
                      ELSE <<240 + (c \div 262144), 128 + ((c \div 4096) % 64),
                             128 + ((c \div 64) % 64), 128 + (c % 64)>>
         IN  bytes \o TextEncode(Tail(s))

\* encodeBase64 with btoa applied to the string itself
encodeBase64_NoUtf8(value) == Btoa([i \in DOMAIN value |-> value[i] % 256])

\* encodeBase64(value) for a string; Buffer.from(value, 'utf-8') on the
\* server gives the same bytes
encodeBase64(value) == Btoa(TextEncode(value))

HexDigit(d) == IF d < 10 THEN 48 + d ELSE 87 + d
Hex4(c) == <<HexDigit(c \div 4096), HexDigit((c \div 256) % 16),
             HexDigit((c \div 16) % 16), HexDigit(c % 16)>>

RECURSIVE QuoteBody(_)
\* QuoteJSONString without the enclosing quotes
QuoteBody(s) ==
    IF s = <<>> THEN <<>>
    ELSE LET c == s[1]
             e == IF c = 8 THEN <<ChBackslash, 98>>
                  ELSE IF c = 9 THEN <<ChBackslash, 116>>
                  ELSE IF c = 10 THEN <<ChBackslash, 110>>
                  ELSE IF c = 12 THEN <<ChBackslash, 102>>
                  ELSE IF c = 13 THEN <<ChBackslash, 114>>
                  ELSE IF c = ChQuote THEN <<ChBackslash, ChQuote>>
                  ELSE IF c = ChBackslash THEN <<ChBackslash, ChBackslash>>
                  ELSE IF c < 32 \/ IsSurrogate(c) THEN <<ChBackslash, 117>> \o Hex4(c)
                  ELSE <<c>>
         IN  e \o QuoteBody(Tail(s))

Quote(s) == <<ChQuote>> \o QuoteBody(s) \o <<ChQuote>>

RECURSIVE Members(_, _)
\* the members of an object with string values, for the keys ks
Members(m, ks) ==
    IF ks = {} THEN <<>>
    ELSE LET k == CHOOSE k \in ks : TRUE
             rest == Members(m, ks \ {k})
         IN  Quote(k) \o <<ChColon>> \o Quote(m[k].v)
                 \o (IF rest = <<>> THEN <<>> ELSE <<ChComma>> \o rest)

\* JSON.stringify of a name-to-source map
JsonStringify(m) == <<ChLBrace>> \o Members(m, DOMAIN m) \o <<ChRBrace>>

\* encodeJsonBase64(payload) for an object
encodeJsonBase64(m) == encodeBase64(JsonStringify(m))

\* characters of a document: ASCII, a quote, a backslash, a line feed, a
\* control character, characters of two, three and four UTF-8 bytes, U+FEFF,
\* a lone high and a lone low surrogate
Alphabet == {97, ChQuote, ChBackslash, ChLf, 1, 233, 8364, 128512, 65279, 55357, 56832}
Texts ==
    { t \in UNION {[1..n -> Alphabet] : n \in 1..MaxChars} :
        \A i \in 1..(Len(t) - 1) : ~(IsHigh(t[i]) /\ IsLow(t[i + 1])) }

Names == {<<97>>, <<98>>, <<ChQuote, ChBackslash>>}
ComponentMaps ==
    UNION { [ks -> {Str(t) : t \in {<<>>} \cup {<<c>> : c \in Alphabet}}] : ks \in SUBSET Names }

InitTransport ==
    /\ input \in {[fn |-> "encodeBase64", value |-> t] : t \in Texts}
                  \cup {[fn |-> "encodeJsonBase64", payload |-> m] : m \in ComponentMaps}
    /\ output = NoOutput
    /\ StageNotMounted
    /\ payload = Absent
    /\ adapterOut = NoCall
    /\ ParserNotStarted
    /\ ScaleNotStarted
    /\ StoreNotStarted
    /\ ServiceNotStarted
    /\ ReactNotStarted

\* the host encodes the document, the page decodes it
EncodeDocument ==
    /\ input.fn = "encodeBase64" /\ "sent" \notin DOMAIN output
    /\ output' = [done |-> FALSE, sent |-> encodeBase64(input.value)]
    /\ UNCHANGED <<payload, adapterOut, parseVars, scaleVars, storeVars, input, stage, svcVars, reactVars>>

DecodeDocument ==
    /\ input.fn = "encodeBase64" /\ "sent" \in DOMAIN output /\ ~output.done
    /\ output' = [done |-> TRUE, sent |-> output.sent, received |-> decodeBase64(output.sent)]
    /\ UNCHANGED <<payload, adapterOut, parseVars, scaleVars, storeVars, input, stage, svcVars, reactVars>>

\* the host encodes the components, the page parses them
EncodeComponents ==
    /\ input.fn = "encodeJsonBase64" /\ "sent" \notin DOMAIN output
    /\ output' = [done |-> FALSE, sent |-> encodeJsonBase64(input.payload)]
    /\ UNCHANGED <<payload, adapterOut, parseVars, scaleVars, storeVars, input, stage, svcVars, reactVars>>

ParseComponents ==
    /\ input.fn = "encodeJsonBase64" /\ "sent" \in DOMAIN output /\ ~output.done
    /\ output' = [done |-> TRUE, sent |-> output.sent,
                  received |-> parseComponentsPayload(output.sent)]
    /\ UNCHANGED <<payload, adapterOut, parseVars, scaleVars, storeVars, input, stage, svcVars, reactVars>>

NextTransport ==
    \/ EncodeDocument
    \/ DecodeDocument
    \/ EncodeComponents
    \/ ParseComponents

SpecTransport == InitTransport /\ [][NextTransport]_vars

\* C30 as claimed: every document comes back from decodeBase64 as it went
\* into encodeBase64, every components map comes back from
\* parseComponentsPayload as it went into encodeJsonBase64.
C30_RoundTrip ==
    output.done =>
        /\ input.fn = "encodeBase64" =>
              ~output.received.threw /\ output.received.text = input.value
        /\ input.fn = "encodeJsonBase64" =>
              ~output.received.null /\ output.received.value = input.payload

\* a string of code points that UTF-8 can carry and TextDecoder returns whole
WellFormed(t) == \A i \in DOMAIN t : ~IsSurrogate(t[i])
NoLeadingBom(t) == t = <<>> \/ t[1] # 65279

\* C30 as amended: a document without lone surrogates that does not start
\* with U+FEFF comes back as it went in; a leading U+FEFF is dropped and a
\* lone surrogate comes back as U+FFFD; every components map comes back as
\* it went in.
C30_RoundTripWellFormed ==
    output.done =>
        /\ input.fn = "encodeBase64" =>
              /\ ~output.received.threw
              /\ (WellFormed(input.value) /\ NoLeadingBom(input.value))
                    => output.received.text = input.value
              /\ (WellFormed(input.value) /\ ~NoLeadingBom(input.value))
                    => output.received.text = Tail(input.value)
              /\ ~WellFormed(input.value) => Replacement \in Range(output.received.text)
        /\ input.fn = "encodeJsonBase64" =>
              ~output.received.null /\ output.received.value = input.payload

\* C30 witness: a document with a character of four UTF-8 bytes has come
\* back
C30_Witness ==
    /\ output.done
    /\ input.fn = "encodeBase64"
    /\ 128512 \in Range(input.value)
    /\ output.received.text = input.value

\* ---------------------------------------------------------------------
\* Utility styles of the preview (VuePreview.tsx)
\* ---------------------------------------------------------------------

MaxElements == 2

\* value.split(/\s+/): the pieces between the runs of white space, the
\* empty pieces at both ends included
RECURSIVE SplitWhitespace(_, _, _, _)
SplitWhitespace(s, i, cur, acc) ==
    IF i > Len(s) THEN Append(acc, cur)
    ELSE IF s[i] \in TrimWhitespace
         THEN IF i > 1 /\ s[i - 1] \in TrimWhitespace
              THEN SplitWhitespace(s, i + 1, cur, acc)
              ELSE SplitWhitespace(s, i + 1, <<>>, Append(acc, cur))
         ELSE SplitWhitespace(s, i + 1, Append(cur, s[i]), acc)

\* token.trim()
RECURSIVE TrimToken(_)
TrimToken(t) ==
    IF t = <<>> THEN t
    ELSE IF t[1] \in TrimWhitespace THEN TrimToken(Tail(t))
    ELSE IF t[Len(t)] \in TrimWhitespace THEN TrimToken(SubSeq(t, 1, Len(t) - 1))
    ELSE t

\* .split(/\s+/).map((token) => token.trim()).filter(Boolean)
ClassList(value) ==
    LET pieces == SplitWhitespace(value, 1, <<>>, <<>>)
        trimmed == [k \in DOMAIN pieces |-> TrimToken(pieces[k])]
    IN  SelectSeq(trimmed, LAMBDA t : t # <<>>)

\* tokens.add(token) for each token of a list: a Set keeps the order of
\* the first insertions
RECURSIVE AddTokens(_, _)
AddTokens(tokens, list) ==
    IF list = <<>> THEN tokens
    ELSE AddTokens(IF \E k \in DOMAIN tokens : tokens[k] = Head(list)
                   THEN tokens ELSE Append(tokens, Head(list)),
                   Tail(list))

\* the same loop over an array instead of a Set
RECURSIVE collectClassTokens_Array(_, _)
collectClassTokens_Array(elements, tokens) ==
    IF elements = <<>> THEN tokens
    ELSE collectClassTokens_Array(Tail(elements), tokens \o ClassList(Head(elements)))

\* collectClassTokens(root): elements holds the class values of root and
\* of its descendants in document order
RECURSIVE collectClassTokens(_, _)
collectClassTokens(elements, tokens) ==
    IF elements = <<>> THEN tokens
    ELSE collectClassTokens(Tail(elements), AddTokens(tokens, ClassList(Head(elements))))

\* tokens.join(' ')
RECURSIVE JoinTokens(_)
JoinTokens(tokens) ==
    IF tokens = <<>> THEN <<>>
    ELSE IF Len(tokens) = 1 THEN tokens[1]
    ELSE tokens[1] \o <<ChSpace>> \o JoinTokens(Tail(tokens))

\* applyUnoStyles up to `await uno.generate(...)`
requestUnoStyles(elements) ==
    LET tokens == collectClassTokens(elements, <<>>)
    IN  IF tokens = <<>>
        THEN [done |-> TRUE, tokens |-> tokens, requested |-> <<>>,
              head |-> <<>>, returned |-> 0]
        ELSE [done |-> FALSE, tokens |-> tokens, requested |-> <<JoinTokens(tokens)>>,
              head |-> <<>>, returned |-> 0]

\* applyUnoStyles after `await uno.generate(...)`; returned is the
\* position of the style node in head, 0 for null
applyUnoStyles(out, css) ==
    IF IsBlank(css)
    THEN [out EXCEPT !.done = TRUE]
    ELSE [out EXCEPT !.done = TRUE,
                     !.head = Append(@, [textContent |-> css, unoPreview |-> TRUE]),
                     !.returned = Len(out.head) + 1]

\* class values: "", "a", "a b", " a  a ", "b<TAB>a", "ab", " "
ClassValues ==
    { <<>>, <<97>>, <<97, 32, 98>>, <<32, 97, 32, 32, 97, 32>>,
      <<98, 9, 97>>, <<97, 98>>, <<32>> }

\* what uno.generate answers: "", " <LF>", ".a"
GeneratedCss == { <<>>, <<32, 10>>, <<46, 97>> }

ElementTrees == UNION {[1..n -> ClassValues] : n \in 1..MaxElements}

InitUno ==
    /\ input \in {[fn |-> "applyUnoStyles", elements |-> e, css |-> c] :
                     e \in ElementTrees, c \in GeneratedCss}
    /\ output = NoOutput
    /\ StageNotMounted
    /\ payload = Absent
    /\ adapterOut = NoCall
    /\ ParserNotStarted
    /\ ScaleNotStarted
    /\ StoreNotStarted
    /\ ServiceNotStarted
    /\ ReactNotStarted

CollectTokens ==
    /\ input.fn = "applyUnoStyles" /\ "tokens" \notin DOMAIN output
    /\ output' = requestUnoStyles(input.elements)
    /\ UNCHANGED <<payload, adapterOut, parseVars, scaleVars, storeVars, input, stage, svcVars, reactVars>>

GenerateResolved ==
    /\ input.fn = "applyUnoStyles" /\ "tokens" \in DOMAIN output /\ ~output.done
    /\ output' = applyUnoStyles(output, input.css)
    /\ UNCHANGED <<payload, adapterOut, parseVars, scaleVars, storeVars, input, stage, svcVars, reactVars>>

NextUno ==
    \/ CollectTokens
    \/ GenerateResolved

SpecUno == InitUno /\ [][NextUno]_vars

\* the class tokens of a tree: the maximal runs of characters other than
\* white space in the class value of some element
TokensOf(elements) ==
    UNION { LET v == elements[e]
            IN  { SubSeq(v, t[1], t[2]) :
                    t \in { u \in (DOMAIN v) \X (DOMAIN v) :
                        /\ u[1] <= u[2]
                        /\ \A k \in u[1]..u[2] : v[k] \notin TrimWhitespace
                        /\ u[1] = 1 \/ v[u[1] - 1] \in TrimWhitespace
                        /\ u[2] = Len(v) \/ v[u[2] + 1] \in TrimWhitespace } }
          : e \in DOMAIN elements }

\* C29: applyUnoStyles collects every class token of the root and of its
\* descendants exactly once, asks the generator for exactly these tokens,
\* and appends exactly one style node holding the generated CSS when that
\* CSS is not blank; without tokens it asks for nothing, and without
\* tokens or with blank CSS it appends nothing and returns null.
C29_OneStyleNodeForTheTokens ==
    (input.fn = "applyUnoStyles" /\ "tokens" \in DOMAIN output) =>
        LET want == TokensOf(input.elements)
        IN  /\ {output.tokens[k] : k \in DOMAIN output.tokens} = want
            /\ Len(output.tokens) = Cardinality(want)
            /\ output.requested = IF want = {} THEN <<>> ELSE <<JoinTokens(output.tokens)>>
            /\ want = {} => output.done
            /\ output.done =>
                  IF want = {} \/ IsBlank(input.css)
                  THEN output.head = <<>> /\ output.returned = 0
                  ELSE /\ output.head = <<[textContent |-> input.css, unoPreview |-> TRUE]>>
                       /\ output.returned = 1

\* a token that occurs on two elements and twice on one of them, CSS that
\* is not blank, one style node
C29_Witness ==
    /\ input.fn = "applyUnoStyles"
    /\ input.elements = << <<97, 32, 98>>, <<32, 97, 32, 32, 97, 32>> >>
    /\ output.done
    /\ output.tokens = << <<97>>, <<98>> >>
    /\ Len(output.head) = 1

-----------------------------------------------------------------------------
(* PreviewStage of the web app (components/PreviewStage.vue): the keyed    *)
(* iframe that shows the preview page and the messages posted to it        *)

MaxFrames == 3

Item(name, code) == [name |-> name, code |-> code]

\* componentsMap: null without components, else the named sources, a later
\* item replacing an earlier one of the same name
NullMap == [null |-> TRUE]
componentsMap(components) ==
    IF Len(components) = 0 THEN NullMap
    ELSE LET kept == {k \in DOMAIN components :
                         components[k].name # "" /\ components[k].code # ""}
             names == {components[k].name : k \in kept}
         IN  [null |-> FALSE,
              map |-> [n \in names |->
                         LET k == CHOOSE k \in kept :
                                     /\ components[k].name = n
                                     /\ \A j \in kept : components[j].name = n => j <= k
                         IN  components[k].code]]

\* previewKey: `${props.slidesMd.length}-${componentCount}`
previewKey(st) == <<Len(st.slidesMd), Len(st.components)>>

NoMessage == [type |-> "none"]
CurrentMessage(st) ==
    [type |-> "preview-code", code |-> st.slidesMd, components |-> componentsMap(st.components)]

\* an iframe element: whether its load event has fired, the last message
\* posted to its window, and whether a message was posted before the load
NewFrameElement == [loaded |-> FALSE, last |-> NoMessage, early |-> FALSE]

sendPreviewMessage(st) ==
    IF ~st.frameReady \/ st.slidesMd = <<>> THEN st
    ELSE IF st.iframeRef = 0 THEN st
    ELSE [st EXCEPT !.frames[st.iframeRef].last = CurrentMessage(st),
                    !.frames[st.iframeRef].early = @ \/ ~st.frames[st.iframeRef].loaded]

handleFrameLoad(st) == sendPreviewMessage([st EXCEPT !.frameReady = TRUE])

\* the callback of watch([() => props.slidesMd, componentsMap], ...)
watchCallback(st) ==
    IF st.slidesMd = <<>> THEN [st EXCEPT !.frameReady = FALSE]
    ELSE sendPreviewMessage(st)

\* the template after a change, old being the key it was rendered with
\* before: v-if / v-else and the keyed <iframe ref="iframeRef">
patchTemplate(st, old) ==
    IF st.slidesMd = <<>> THEN [st EXCEPT !.iframeRef = 0]
    ELSE IF st.iframeRef = 0 \/ previewKey(st) # old
    THEN [st EXCEPT !.frames = Append(@, NewFrameElement), !.iframeRef = Len(st.frames) + 1]
    ELSE st

\* props.slidesMd: "", "a", "b", "aa"
SlidesMd == { <<>>, <<97>>, <<98>>, <<97, 97>> }

\* props.components
ComponentArtifacts ==
    { <<>>, <<Item("A", "x")>>, <<Item("A", "y")>>, <<Item("", "")>>,
      <<Item("A", "x"), Item("B", "x")>> }

InitStage ==
    /\ \E s \in SlidesMd, c \in ComponentArtifacts :
          stage = patchTemplate([mounted |-> TRUE, slidesMd |-> s, components |-> c,
                                 frameReady |-> FALSE, iframeRef |-> 0, frames |-> <<>>],
                                <<Len(s), Len(c)>>)
    /\ HelpersNotCalled
    /\ StoreNotStarted
    /\ payload = Absent
    /\ adapterOut = NoCall
    /\ ParserNotStarted
    /\ ScaleNotStarted
    /\ ServiceNotStarted
    /\ ReactNotStarted

stageOther == <<payload, adapterOut, parseVars, scaleVars, storeVars, pureVars, svcVars, reactVars>>

\* the parent renders with other props: the watcher runs before the
\* component's own update (flush 'pre'), then the template is patched
SetProps(s, c) ==
    /\ stage.mounted
    /\ <<s, c>> # <<stage.slidesMd, stage.components>>
    /\ LET st == [stage EXCEPT !.slidesMd = s, !.components = c]
           next == patchTemplate(watchCallback(st), previewKey(stage))
       IN  /\ Len(next.frames) <= MaxFrames
           /\ stage' = next
    /\ UNCHANGED stageOther

\* the load event of the iframe that is shown: @load="handleFrameLoad"
HandleFrameLoad ==
    /\ stage.mounted
    /\ stage.iframeRef # 0
    /\ ~stage.frames[stage.iframeRef].loaded
    /\ stage' = handleFrameLoad([stage EXCEPT !.frames[stage.iframeRef].loaded = TRUE])
    /\ UNCHANGED stageOther

NextStage ==
    \/ \E s \in SlidesMd, c \in ComponentArtifacts : SetProps(s, c)
    \/ HandleFrameLoad

SpecStage == InitStage /\ [][NextStage]_vars

\* C33: a 'preview-code' message is posted only to an iframe whose load
\* event has fired and only with a document that is not empty, and once the
\* iframe that is shown has loaded, the last message posted to it carries
\* the current slidesMd and components map.
C33_PostsToLoadedFrame ==
    stage.mounted =>
        /\ \A f \in DOMAIN stage.frames :
              /\ ~stage.frames[f].early
              /\ stage.frames[f].last # NoMessage => stage.frames[f].last.code # <<>>
        /\ (stage.iframeRef # 0 /\ stage.frames[stage.iframeRef].loaded)
              => stage.frames[stage.iframeRef].last = CurrentMessage(stage)

-----------------------------------------------------------------------------
(* The session history of the store (web/stores/session.ts)                *)

MaxHistoryIds == 9
MaxRecalls == 2

\* .slice(0, 8)
HISTORY_LIMIT == 8

\* rememberSession without its filter
rememberSession_NoFilter(history, entry) ==
    LET all == <<entry>> \o history
    IN  SubSeq(all, 1, IF Len(all) < HISTORY_LIMIT THEN Len(all) ELSE HISTORY_LIMIT)

\* rememberSession: [entry, ...history.filter((item) => item.id !== entry.id)].slice(0, 8)
rememberSession(history, entry) ==
    LET all == <<entry>> \o SelectSeq(history, LAMBDA item : item.id # entry.id)
    IN  SubSeq(all, 1, IF Len(all) < HISTORY_LIMIT THEN Len(all) ELSE HISTORY_LIMIT)

\* the store starts with `history: []`; ids counts the sessions created so
\* far, calls the rememberSession calls, recalls those for a session that
\* was remembered before
InitHistory ==
    /\ input = [fn |-> "rememberSession", sessionId |-> 0]
    /\ output = [done |-> FALSE, history |-> <<>>, ids |-> 0, calls |-> 0, recalls |-> 0]
    /\ StageNotMounted
    /\ StoreNotStarted
    /\ payload = Absent
    /\ adapterOut = NoCall
    /\ ParserNotStarted
    /\ ScaleNotStarted
    /\ ServiceNotStarted
    /\ ReactNotStarted

\* rememberSession(title) while this.sessionId is id; createdAt is
\* Date.now(), here the number of the call
RememberSession(id) ==
    /\ input.fn = "rememberSession"
    /\ id <= output.ids + 1
    /\ id <= output.ids => output.recalls < MaxRecalls
    /\ input' = [input EXCEPT !.sessionId = id]
    /\ output' = [done |-> TRUE,
                  history |-> rememberSession(output.history,
                                              [id |-> id, createdAt |-> output.calls + 1]),
                  ids |-> IF id > output.ids THEN id ELSE output.ids,
                  calls |-> output.calls + 1,
                  recalls |-> IF id <= output.ids THEN output.recalls + 1 ELSE output.recalls]
    /\ UNCHANGED <<payload, adapterOut, parseVars, scaleVars, storeVars, stage, svcVars, reactVars>>

NextHistory == \E id \in 1..MaxHistoryIds : RememberSession(id)

SpecHistory == InitHistory /\ [][NextHistory]_vars

\* C36: after rememberSession the history holds at most 8 entries, no two
\* of them with the same session id, and its first entry is the one just
\* remembered.
C36_HistoryBoundedAndUnique ==
    (input.fn = "rememberSession" /\ output.done) =>
        /\ Len(output.history) <= 8
        /\ \A i, j \in DOMAIN output.history :
              output.history[i].id = output.history[j].id => i = j
        /\ output.history[1] = [id |-> input.sessionId, createdAt |-> output.calls]

\* C36 witness: nine sessions were remembered, the first of them was
\* dropped and then remembered again, and the history is full
C36_Witness ==
    /\ input.fn = "rememberSession"
    /\ output.ids = 9
    /\ output.recalls > 0
    /\ input.sessionId = 1
    /\ Len(output.history) = HISTORY_LIMIT
    /\ output.history[1].id = 1
    /\ output.history[2].id = 9

-----------------------------------------------------------------------------
(* normalizeImports of the React VuePreview (VuePreview.tsx)               *)

MaxLines == 3

ChSemi == 59
ChApos == 39

\* the line terminators of ^ and $ under the m flag
LineTerminators == {10, 13, 8232, 8233}

LitImport == <<105, 109, 112, 111, 114, 116>>
LitFrom == <<102, 114, 111, 109>>
LitVue == <<118, 117, 101>>
LitAs == <<97, 115>>

\* \s+ at i: the index after the run of white space, 0 when there is none
RECURSIVE AfterSpaces(_, _)
AfterSpaces(s, i) ==
    IF i <= Len(s) /\ s[i] \in TrimWhitespace THEN AfterSpaces(s, i + 1) ELSE i
Spaces1(s, i) == IF AfterSpaces(s, i) > i THEN AfterSpaces(s, i) ELSE 0

\* String(imports).replace(/\s+as\s+/g, ': ')
RECURSIVE RenameAs(_, _)
RenameAs(s, i) ==
    IF i > Len(s) THEN <<>>
    ELSE LET a == Spaces1(s, i)
             b == IF a # 0 /\ StartsWith(s, a, LitAs) THEN Spaces1(s, a + 2) ELSE 0
         IN  IF b # 0 THEN <<ChColon, ChSpace>> \o RenameAs(s, b)
             ELSE <<s[i]>> \o RenameAs(s, i + 1)

\* /import\s+\{([^}]+)\}\s+from\s+['"]vue['"];?/ at i: whether it matches,
\* the last index of the match, the group
VueImportAt(s, i) ==
    LET none == [ok |-> FALSE, end |-> 0, imports |-> <<>>]
        a == IF StartsWith(s, i, LitImport) THEN Spaces1(s, i + 6) ELSE 0
        close == IF a # 0 /\ a <= Len(s) /\ s[a] = ChLBrace
                 THEN FirstIndex(s, ChRBrace, a + 1) ELSE 0
        b == IF close > a + 1 THEN Spaces1(s, close + 1) ELSE 0
        c == IF b # 0 /\ StartsWith(s, b, LitFrom) THEN Spaces1(s, b + 4) ELSE 0
        quoted == /\ c # 0 /\ c + 4 <= Len(s)
                  /\ s[c] \in {ChApos, ChQuote}
                  /\ StartsWith(s, c + 1, LitVue)
                  /\ s[c + 4] \in {ChApos, ChQuote}
    IN  IF ~quoted THEN none
        ELSE [ok |-> TRUE,
              end |-> IF c + 5 <= Len(s) /\ s[c + 5] = ChSemi THEN c + 5 ELSE c + 4,
              imports |-> SubSeq(s, a + 1, close - 1)]

\* the first replace of normalizeImports, from index i on
RECURSIVE RewriteVueImports(_, _)
RewriteVueImports(s, i) ==
    IF i > Len(s) THEN <<>>
    ELSE LET m == VueImportAt(s, i)
         IN  IF m.ok
             THEN <<99, 111, 110, 115, 116, 32, 123>> \o RenameAs(m.imports, 1)
                      \o <<125, 32, 61, 32, 86, 117, 101, 59>> \o RewriteVueImports(s, m.end + 1)
             ELSE <<s[i]>> \o RewriteVueImports(s, i + 1)

\* \s*$ at p: the last index of the longest run of white space from p after
\* which the text or a line ends (p - 1 for the empty run), -1 for no match
LineTail(s, p) ==
    LET r == AfterSpaces(s, p) - 1
        ends == {q \in (p - 1)..r : q = Len(s) \/ s[q + 1] \in LineTerminators}
    IN  IF ends = {} THEN -1 ELSE CHOOSE q \in ends : \A u \in ends : u <= q

\* /^\s*import[^;]+;?\s*$/m at i: the last index of the match, 0 for none.
\* [^;]+ takes the longest stretch without ';' (line ends included) after
\* which ;?\s*$ matches
ImportLineAt(s, i) ==
    LET j == AfterSpaces(s, i)
        semi == FirstIndex(s, ChSemi, j + 6)
        most == IF semi = 0 THEN Len(s) ELSE semi - 1
        TailAt(e) ==
            IF e + 1 <= Len(s) /\ s[e + 1] = ChSemi /\ LineTail(s, e + 2) # -1
            THEN LineTail(s, e + 2)
            ELSE LineTail(s, e + 1)
        fits == {e \in (j + 6)..most : TailAt(e) # -1}
    IN  IF ~(i = 1 \/ s[i - 1] \in LineTerminators) THEN 0
        ELSE IF ~StartsWith(s, j, LitImport) \/ fits = {} THEN 0
        ELSE TailAt(CHOOSE e \in fits : \A u \in fits : u <= e)

\* the second replace of normalizeImports, from index i on
RECURSIVE RemoveImportLines(_, _)
RemoveImportLines(s, i) ==
    IF i > Len(s) THEN <<>>
    ELSE IF ImportLineAt(s, i) # 0 THEN RemoveImportLines(s, ImportLineAt(s, i) + 1)
    ELSE <<s[i]>> \o RemoveImportLines(s, i + 1)

normalizeImports(code) == RemoveImportLines(RewriteVueImports(code, 1), 1)

\* lines of a compiled script: imports with and without a semicolon at the
\* end, from 'vue' and from elsewhere, and statements that are no imports
LnImport     == <<105, 109, 112, 111, 114, 116, 32, 97, 32, 102, 114, 111, 109, 32, 39, 98, 39>>
LnImportSemi == <<105, 109, 112, 111, 114, 116, 32, 97, 32, 102, 114, 111, 109, 32, 39, 98, 39, 59>>
LnVue        == <<105, 109, 112, 111, 114, 116, 32, 123, 97, 32, 97, 115, 32, 98, 125, 32, 102, 114, 111, 109, 32, 39, 118, 117, 101, 39>>
LnVueSemi    == <<105, 109, 112, 111, 114, 116, 32, 123, 97, 32, 97, 115, 32, 98, 125, 32, 102, 114, 111, 109, 32, 39, 118, 117, 101, 39, 59>>
LnCall       == <<120, 40, 41>>
LnCallSemi   == <<120, 40, 41, 59>>
LnConst      == <<99, 111, 110, 115, 116, 32, 123, 97, 58, 32, 98, 125, 32, 61, 32, 86, 117, 101, 59>>

ImportLines == {LnImport, LnImportSemi}
VueImportLines == {LnVue, LnVueSemi}
ScriptLines == ImportLines \cup VueImportLines \cup {LnCall, LnCallSemi}

RECURSIVE JoinLines(_)
JoinLines(ls) ==
    IF Len(ls) = 1 THEN ls[1] ELSE ls[1] \o <<ChLf>> \o JoinLines(Tail(ls))

Scripts == {JoinLines(ls) : ls \in UNION {[1..n -> ScriptLines] : n \in 1..MaxLines}}

InitImports ==
    /\ input \in {[fn |-> "normalizeImports", code |-> c] : c \in Scripts}
    /\ output = NoOutput
    /\ StageNotMounted
    /\ payload = Absent
    /\ adapterOut = NoCall
    /\ ParserNotStarted
    /\ ScaleNotStarted
    /\ StoreNotStarted
    /\ ServiceNotStarted
    /\ ReactNotStarted

CallNormalizeImports ==
    /\ input.fn = "normalizeImports" /\ ~output.done
    /\ output' = [done |-> TRUE, code |-> normalizeImports(input.code)]
    /\ UNCHANGED <<payload, adapterOut, parseVars, scaleVars, storeVars, input, stage, svcVars, reactVars>>

NextImports == CallNormalizeImports

SpecImports == InitImports /\ [][NextImports]_vars

\* what is to reach execution: the lines that are no imports as they are,
\* the imports from 'vue' as destructuring of Vue, the other imports gone
RECURSIVE ExpectedLines(_)
ExpectedLines(ls) ==
    IF ls = <<>> THEN <<>>
    ELSE IF Head(ls) \in ImportLines THEN ExpectedLines(Tail(ls))
    ELSE IF Head(ls) \in VueImportLines THEN <<LnConst>> \o ExpectedLines(Tail(ls))
    ELSE <<Head(ls)>> \o ExpectedLines(Tail(ls))

\* C37: the lines of what normalizeImports returns, blank lines aside, are
\* the statements of the script that are no import declarations, unchanged
\* and in order, and the rewritten imports from 'vue'; also when an import
\* line does not end with a semicolon.
C37_OnlyImportsTouched ==
    (input.fn = "normalizeImports" /\ output.done) =>
        DropBlank(LinesOf(output.code)) = ExpectedLines(LinesOf(input.code))

-----------------------------------------------------------------------------
(* The component's script run by mountPreview (VuePreview.tsx):            *)
(* new Function('Vue', scriptCode) called with VueRuntime                  *)

MaxStatements == 3

Num(n) == [t |-> "number", v |-> n]
VueRuntime == [t |-> "object", v |-> 1]
EmptyExports == [t |-> "object", v |-> 0]
Undefined == [t |-> "undefined", v |-> 0]

\* statements of scriptCode: `const a = 1`, `return a`, `return title`,
\* `title = 1`, `return Vue`; title is a property of the page's global
\* object, a and Vue are not
StConstA == [op |-> "const", name |-> "a", expr |-> [k |-> "lit", v |-> Num(1)]]
StReturnA == [op |-> "return", name |-> "", expr |-> [k |-> "id", v |-> "a"]]
StReturnTitle == [op |-> "return", name |-> "", expr |-> [k |-> "id", v |-> "title"]]
StSetTitle == [op |-> "assign", name |-> "title", expr |-> [k |-> "lit", v |-> Num(1)]]
StReturnVue == [op |-> "return", name |-> "", expr |-> [k |-> "id", v |-> "Vue"]]
Statements == {StConstA, StReturnA, StReturnTitle, StSetTitle, StReturnVue}

ScriptCodes == UNION {[1..n -> Statements] : n \in 1..MaxStatements}

\* the global object of the page
GlobalStates == {("title" :> Num(v)) : v \in 0..1}

\* the names the function body declares: they shadow the global object
\* in the whole body
Declared(code) == {code[k].name : k \in {k \in DOMAIN code : code[k].op = "const"}}

\* the value of an expression: an identifier is a binding of the body, the
\* parameter Vue, or a property of the global object, in this order, and a
\* ReferenceError when it is none or a binding not yet initialised
Eval(expr, code, env) ==
    IF expr.k = "lit" THEN [threw |-> FALSE, value |-> expr.v]
    ELSE IF expr.v \in Declared(code)
    THEN IF expr.v \in DOMAIN env.locals
         THEN [threw |-> FALSE, value |-> env.locals[expr.v]]
         ELSE [threw |-> TRUE, value |-> Undefined]
    ELSE IF expr.v = "Vue" THEN [threw |-> FALSE, value |-> env.Vue]
    ELSE IF expr.v \in DOMAIN env.globals
    THEN [threw |-> FALSE, value |-> env.globals[expr.v]]
    ELSE [threw |-> TRUE, value |-> Undefined]

RECURSIVE Exec(_, _, _)
\* the body from statement k on: what it returns, whether it throws, and
\* the global object it leaves.  The body of a Function object is sloppy
\* code whose scope is the global scope: an assignment to a name that the
\* body does not declare sets a property of the global object
Exec(code, k, env) ==
    IF k > Len(code) THEN [threw |-> FALSE, value |-> Undefined, globals |-> env.globals]
    ELSE LET st == code[k]
             e == Eval(st.expr, code, env)
         IN  IF e.threw THEN [threw |-> TRUE, value |-> Undefined, globals |-> env.globals]
             ELSE IF st.op = "return"
             THEN [threw |-> FALSE, value |-> e.value, globals |-> env.globals]
             ELSE IF st.op = "const"
             THEN Exec(code, k + 1, [env EXCEPT !.locals = (st.name :> e.value) @@ @])
             ELSE IF st.name \in Declared(code)
             THEN [threw |-> TRUE, value |-> Undefined, globals |-> env.globals]
             ELSE IF st.name = "Vue"
             THEN Exec(code, k + 1, [env EXCEPT !.Vue = e.value])
             ELSE Exec(code, k + 1, [env EXCEPT !.globals = (st.name :> e.value) @@ @])

\* a body that declares a name twice is a SyntaxError of new Function
Compiles(code) ==
    \A i, j \in DOMAIN code :
        (code[i].op = "const" /\ code[j].op = "const" /\ code[i].name = code[j].name) => i = j

Falsy(value) == value = Undefined \/ value = Num(0)

\* scriptExports = (scriptFn(VueRuntime) as Record<string, unknown>) || {}
scriptFn(code, vue, globals) ==
    IF ~Compiles(code) THEN [threw |-> TRUE, exports |-> EmptyExports, globals |-> globals]
    ELSE LET r == Exec(code, 1, [locals |-> [n \in {} |-> Undefined], Vue |-> vue,
                                 globals |-> globals])
         IN  [threw |-> r.threw,
              exports |-> IF r.threw \/ Falsy(r.value) THEN EmptyExports ELSE r.value,
              globals |-> r.globals]

InitScript ==
    /\ input \in {[fn |-> "scriptFn", code |-> c, globals |-> g] :
                     c \in ScriptCodes, g \in GlobalStates}
    /\ output = NoOutput
    /\ StageNotMounted
    /\ payload = Absent
    /\ adapterOut = NoCall
    /\ ParserNotStarted
    /\ ScaleNotStarted
    /\ StoreNotStarted
    /\ ServiceNotStarted
    /\ ReactNotStarted

CallScriptFn ==
    /\ input.fn = "scriptFn" /\ ~output.done
    /\ LET r == scriptFn(input.code, VueRuntime, input.globals)
       IN  output' = [done |-> TRUE, threw |-> r.threw, exports |-> r.exports,
                      globals |-> r.globals]
    /\ UNCHANGED <<payload, adapterOut, parseVars, scaleVars, storeVars, input, stage, svcVars, reactVars>>

NextScript == CallScriptFn

SpecScript == InitScript /\ [][NextScript]_vars

\* C38: the script leaves the global object of the page as it was, and
\* what it exports or throws is the same whatever the global object
\* holds: it depends on the source and on the Vue object only.
C38_ScriptIsolated ==
    (input.fn = "scriptFn" /\ output.done) =>
        /\ output.globals = input.globals
        /\ \A g \in GlobalStates :
              LET r == scriptFn(input.code, VueRuntime, g)
              IN  r.threw = output.threw /\ r.exports = output.exports

====
